---- MODULE Spec2Model ----
(***************************************************************************)
(* SquareMiles city-specific multimodal optimizer (src/src/app.py): the    *)
(* router with its great-circle fallback, the impact calculator, the       *)
(* candidate search with min-max scoring, the weighted pick, the baseline  *)
(* builder and the geocoder's on-disk cache.                               *)
(*                                                                         *)
(* Numbers.  The impact calculator is modelled in IEEE 754 binary64, the   *)
(* arithmetic of a Python float (F64, FAdd, FMul, FDiv).  The candidate    *)
(* search, whose properties depend on the order of the totals only, is     *)
(* modelled over the reals, as exact fixed-point quantities:               *)
(*   distance  in units of 1/UNITS_PER_KM km (0.2 m), so that the 0.001 km *)
(*             grid of round(d, 3) is 5 units and no value lies exactly    *)
(*             half-way between two grid points;                           *)
(*   time      in units of 1/(TIME_DEN * UNITS_PER_KM) h;                  *)
(*   CO2       in units of 1/(1000 * UNITS_PER_KM) kg;                     *)
(*   cost      in units of 1/(10^6 * UNITS_PER_KM) currency.               *)
(* CO2 and cost exceed 32 bits (0.5 km by boat is 8 * 10^10 cost units),   *)
(* so they are naturals held as little-endian limb sequences (Big, BigAdd, *)
(* BigMul, ...).                                                           *)
(* Floating-point rounding error is not modelled in the search.            *)
(***************************************************************************)
EXTENDS Integers, Sequences, FiniteSets, TLC

VARIABLES
    pc,            \* position of the run being modelled
    city_name,     \* selected city (key of CITY_MODE_CAPS)
    engine,        \* routing engine selected in the sidebar
    micro_hubs,    \* city_obj["micro_hubs"]: sequence of hub Nodes
    world,         \* the outside world: great-circle distances, routing service
    args,          \* arguments of the operation applied last
    results,       \* dict returned by search_best_routes
    best_combo,    \* index into results.all returned by pick_best_combo (0: None)
    baseline,      \* (segments, totals, chosen_hub) returned by make_baseline
    candidate,     \* (segs, totals) returned by eval_candidate_* last
    route,         \* route_with_engine: last return value and what it did
    osrm_cache,    \* st.cache_data memo of osrm_distance_and_shape
    impact,        \* impact_for_leg: last return values
    cache_file,    \* geocode_cache.json: stripped address -> value
    geo,           \* geocode_address: last return value and what it did
    geocode_memo,  \* st.cache_data memo of geocode_address: addr -> return value
    CITY_GRAPH,    \* dict returned by build_city_graph, in insertion order
    CITY_NAMES     \* selectable city names returned by build_graph_and_list

vars == <<pc, city_name, engine, micro_hubs, world, args, results, best_combo,
          baseline, route, osrm_cache, impact, cache_file, geo, candidate,
          geocode_memo, CITY_GRAPH, CITY_NAMES>>

\* Python's None where a record or tuple may stand; an index is 0 for None
None == <<>>
NoProfile == "none"

-----------------------------------------------------------------------------
(* Exact natural-number arithmetic on little-endian limb sequences.        *)

BASE == 10 ^ 4

Max(x, y) == IF x > y THEN x ELSE y
Min(x, y) == IF x < y THEN x ELSE y

RECURSIVE BigCarry(_, _)
BigCarry(s, c) ==
    IF s = <<>>
    THEN IF c = 0 THEN <<>> ELSE <<c % BASE>> \o BigCarry(<<>>, c \div BASE)
    ELSE LET v == Head(s) + c IN <<v % BASE>> \o BigCarry(Tail(s), v \div BASE)

RECURSIVE BigStrip(_)
BigStrip(s) ==
    IF s # <<>> /\ s[Len(s)] = 0 THEN BigStrip(SubSeq(s, 1, Len(s) - 1)) ELSE s

Big(n) == BigStrip(BigCarry(<<n>>, 0))

BigZero == <<>>

Limb(s, i) == IF i >= 1 /\ i <= Len(s) THEN s[i] ELSE 0

BigAdd(x, y) ==
    LET n == IF Len(x) > Len(y) THEN Len(x) ELSE Len(y)
    IN  BigStrip(BigCarry([i \in 1..n |-> Limb(x, i) + Limb(y, i)], 0))

\* sum of x[i] * y[k + 1 - i] over the limbs i..hi of x
RECURSIVE ConvSum(_, _, _, _, _)
ConvSum(x, y, k, i, hi) ==
    IF i > hi THEN 0
    ELSE x[i] * y[k + 1 - i] + ConvSum(x, y, k, i + 1, hi)

BigMul(x, y) ==
    IF x = <<>> \/ y = <<>> THEN <<>>
    ELSE IF Len(x) = 1 THEN BigStrip(BigCarry([k \in 1..Len(y) |-> x[1] * y[k]], 0))
    ELSE IF Len(y) = 1 THEN BigStrip(BigCarry([k \in 1..Len(x) |-> y[1] * x[k]], 0))
    ELSE BigStrip(BigCarry([k \in 1..(Len(x) + Len(y) - 1) |->
                               ConvSum(x, y, k, Max(1, k + 1 - Len(y)), Min(k, Len(x)))], 0))

BigLess(x, y) ==
    IF Len(x) # Len(y) THEN Len(x) < Len(y)
    ELSE \E i \in 1..Len(x) : x[i] < y[i] /\ \A j \in (i + 1)..Len(x) : x[j] = y[j]

BigLeq(x, y) == x = y \/ BigLess(x, y)

RECURSIVE BigBorrow(_, _, _)
BigBorrow(x, y, c) ==
    IF x = <<>> THEN <<>>
    ELSE LET v  == Head(x) - Limb(y, 1) - c
             yt == IF y = <<>> THEN y ELSE Tail(y)
         IN  IF v < 0 THEN <<v + BASE>> \o BigBorrow(Tail(x), yt, 1)
             ELSE <<v>> \o BigBorrow(Tail(x), yt, 0)

\* x - y for x >= y
BigSub(x, y) == BigStrip(BigBorrow(x, y, 0))

(* Non-negative rationals n/d, d > 0, of Big numerator and denominator.    *)
Rat(n, d) == [n |-> n, d |-> d]
RatZero == Rat(BigZero, Big(1))
RatOne == Rat(Big(1), Big(1))
RatAdd(a, b) ==
    IF a.d = b.d THEN Rat(BigAdd(a.n, b.n), a.d)
    ELSE Rat(BigAdd(BigMul(a.n, b.d), BigMul(b.n, a.d)), BigMul(a.d, b.d))
RatMul(a, b) == Rat(BigMul(a.n, b.n), BigMul(a.d, b.d))
RatLess(a, b) ==
    IF a.d = b.d THEN BigLess(a.n, b.n)
    ELSE BigLess(BigMul(a.n, b.d), BigMul(b.n, a.d))
RatEq(a, b) == IF a.d = b.d THEN a.n = b.n ELSE BigMul(a.n, b.d) = BigMul(b.n, a.d)
RatLeq(a, b) == ~RatLess(b, a)

-----------------------------------------------------------------------------
(* IEEE 754 binary64, the arithmetic of a Python float, for non-negative   *)
(* finite values in the normal range: zero, or [m, e] with                 *)
(* 2^52 <= m < 2^53 standing for m * 2^e.  Every operation is the exact    *)
(* result rounded to nearest, ties to even.                                *)

RECURSIVE Pow2Of(_)
Pow2Of(k) == IF k <= 26 THEN Big(2 ^ k) ELSE BigMul(Pow2Of(k \div 2), Pow2Of(k - k \div 2))

\* 2^k for k < 192, tabulated
Pow2Table == [i \in 1..192 |-> Pow2Of(i - 1)] \o <<>>
Pow2(k) == Pow2Table[k + 1]

\* limbs 1..i of x \div q for a small q, rem the remainder carried from above
RECURSIVE DivLimbs(_, _, _, _)
DivLimbs(x, q, i, rem) ==
    IF i = 0 THEN <<>>
    ELSE Append(DivLimbs(x, q, i - 1, (rem * BASE + x[i]) % q), (rem * BASE + x[i]) \div q)

\* x \div 2^k
RECURSIVE BigShr(_, _)
BigShr(x, k) ==
    IF k = 0 THEN x
    ELSE IF k <= 16 THEN BigStrip(DivLimbs(x, 2 ^ k, Len(x), 0))
    ELSE BigShr(BigStrip(DivLimbs(x, 2 ^ 16, Len(x), 0)), k - 16)

\* the least L in lo..hi with x < 2^L
RECURSIVE BitLenIn(_, _, _)
BitLenIn(x, lo, hi) ==
    IF lo = hi THEN lo
    ELSE IF BigLess(x, Pow2((lo + hi) \div 2))
         THEN BitLenIn(x, lo, (lo + hi) \div 2)
         ELSE BitLenIn(x, (lo + hi) \div 2 + 1, hi)

BitLen(x) == BitLenIn(x, 0, 127)

FZero == [m |-> BigZero, e |-> 0]

\* q * 2^(e + s) with q = n \div 2^s rounded up or not by the bits shifted out
RoundShifted(q, twice_r, s, e) ==
    LET up == BigLess(Pow2(s), twice_r) \/ (twice_r = Pow2(s) /\ q[1] % 2 = 1)
        q1 == IF up THEN BigAdd(q, Big(1)) ELSE q
    IN  IF q1 = Pow2(53) THEN [m |-> Pow2(52), e |-> e + s + 1]
        ELSE [m |-> q1, e |-> e + s]

RoundBits(n, e, s) ==
    LET q == BigShr(n, s)
        r == BigSub(n, BigMul(q, Pow2(s)))
    IN  RoundShifted(q, BigAdd(r, r), s, e)

\* the binary64 nearest to n * 2^e
F64(n, e) ==
    IF n = BigZero THEN FZero
    ELSE IF BitLen(n) <= 53
         THEN [m |-> BigMul(n, Pow2(53 - BitLen(n))), e |-> e - (53 - BitLen(n))]
         ELSE RoundBits(n, e, BitLen(n) - 53)

FromInt(k) == F64(Big(k), 0)

FMul(a, b) == F64(BigMul(a.m, b.m), a.e + b.e)

FAdd(a, b) ==
    IF a = FZero THEN b
    ELSE IF b = FZero THEN a
    ELSE F64(BigAdd(BigMul(a.m, Pow2(a.e - Min(a.e, b.e))),
                    BigMul(b.m, Pow2(b.e - Min(a.e, b.e)))), Min(a.e, b.e))

\* n steps of binary long division: <<quotient bits, remainder>>, rem < b
RECURSIVE DivSteps(_, _, _)
DivSteps(rem, b, n) ==
    IF n = 1
    THEN IF BigLeq(b, BigAdd(rem, rem))
         THEN <<Big(1), BigSub(BigAdd(rem, rem), b)>>
         ELSE <<BigZero, BigAdd(rem, rem)>>
    ELSE LET hi == DivSteps(rem, b, n \div 2)
             lo == DivSteps(hi[2], b, n - n \div 2)
         IN  <<BigAdd(BigMul(hi[1], Pow2(n - n \div 2)), lo[1]), lo[2]>>

\* 2 * floor(x * 2^56 / y) + (1 if the division left a remainder), for x < 2 * y
Quotient57(x, y) ==
    LET first == IF BigLeq(y, x) THEN <<Big(1), BigSub(x, y)>> ELSE <<BigZero, x>>
        rest  == DivSteps(first[2], y, 56)
        q     == BigAdd(BigMul(first[1], Pow2(56)), rest[1])
    IN  BigAdd(BigAdd(q, q), IF rest[2] = BigZero THEN BigZero ELSE Big(1))

FDiv(a, b) ==
    IF a = FZero THEN FZero ELSE F64(Quotient57(a.m, b.m), a.e - b.e - 57)

FLess(a, b) ==
    IF b = FZero THEN FALSE
    ELSE IF a = FZero THEN TRUE
    ELSE a.e < b.e \/ (a.e = b.e /\ BigLess(a.m, b.m))

FMax(a, b) == IF FLess(a, b) THEN b ELSE a

\* the float a decimal literal k / 10^digits denotes
Literal(k, digits) == FDiv(FromInt(k), FromInt(10 ^ digits))

-----------------------------------------------------------------------------
(* Static catalogs.                                                        *)

UNITS_PER_KM == 5 * 1000
\* every speed_kph * 100 of MODES divides TIME_DEN
TIME_DEN == 64 * 3 * 125 * 7 * 67

\* emission: g/km; cost_trans, cost_labour: 10^-6 per km; speed: kph * 100
MODES ==
    [truck |-> [emission_kg_per_km |-> 448, cost_trans |-> 508000,
                cost_labour |-> 289190, speed_kph |-> 2345, osrm_profile |-> "driving"],
     elcv |-> [emission_kg_per_km |-> 346, cost_trans |-> 70000,
               cost_labour |-> 289190, speed_kph |-> 2345, osrm_profile |-> "driving"],
     small_van |-> [emission_kg_per_km |-> 210, cost_trans |-> 179000,
                    cost_labour |-> 289190, speed_kph |-> 2345, osrm_profile |-> "driving"],
     cargo_bike |-> [emission_kg_per_km |-> 33, cost_trans |-> 4000,
                     cost_labour |-> 419688, speed_kph |-> 1600, osrm_profile |-> "cycling"],
     e_scooter_trailer |-> [emission_kg_per_km |-> 25, cost_trans |-> 5000,
                            cost_labour |-> 479643, speed_kph |-> 1400, osrm_profile |-> "cycling"],
     autonomous_robot |-> [emission_kg_per_km |-> 10, cost_trans |-> 5000,
                           cost_labour |-> 1119167, speed_kph |-> 600, osrm_profile |-> "walking"],
     cargo_tram |-> [emission_kg_per_km |-> 0, cost_trans |-> 808000,
                     cost_labour |-> 335750, speed_kph |-> 2000, osrm_profile |-> NoProfile],
     cargo_bus |-> [emission_kg_per_km |-> 822, cost_trans |-> 366000,
                    cost_labour |-> 289190, speed_kph |-> 2345, osrm_profile |-> "driving"],
     boat |-> [emission_kg_per_km |-> 33, cost_trans |-> 31718000,
               cost_labour |-> 559583, speed_kph |-> 1200, osrm_profile |-> NoProfile]]

ModeKeys == DOMAIN MODES
Profiles == {"driving", "cycling", "walking"}

CITY_LIST ==
    <<"Hamburg, Germany", "Shanghai, China", "Amsterdam, Netherlands",
      "New York City, USA", "London, UK", "Sao Paulo, Brazil", "Nairobi, Kenya",
      "Mumbai, India", "Singapore, Singapore", "Istanbul, Turkey">>

CityNames == {CITY_LIST[i] : i \in DOMAIN CITY_LIST}

\* CITY_MODE_CAPS[city]['allowed']
Allowed(city) ==
    CASE city = "Hamburg, Germany" ->
           <<"boat", "cargo_bike", "cargo_bus", "cargo_tram", "elcv", "small_van", "truck">>
      [] city = "Shanghai, China" ->
           <<"autonomous_robot", "cargo_bike", "cargo_tram", "e_scooter_trailer",
             "small_van", "truck">>
      [] city = "Amsterdam, Netherlands" ->
           <<"boat", "cargo_bike", "cargo_bus", "cargo_tram", "elcv", "truck">>
      [] city = "New York City, USA" ->
           <<"autonomous_robot", "cargo_bike", "cargo_bus", "small_van", "truck">>
      [] city = "London, UK" ->
           <<"autonomous_robot", "cargo_bike", "cargo_bus", "elcv", "truck">>
      [] city = "Sao Paulo, Brazil" -> <<"cargo_bus", "small_van", "truck">>
      [] city = "Nairobi, Kenya" -> <<"cargo_bus", "small_van", "truck">>
      [] city = "Mumbai, India" ->
           <<"boat", "cargo_bike", "cargo_bus", "small_van", "truck">>
      [] city = "Singapore, Singapore" ->
           <<"boat", "cargo_bike", "cargo_bus", "elcv", "truck">>
      [] city = "Istanbul, Turkey" -> <<"boat", "cargo_bus", "cargo_tram", "truck">>

Range(s) == {s[i] : i \in DOMAIN s}

\* a list comprehension, evaluated once
List(f) == f \o <<>>

-----------------------------------------------------------------------------
(* Router.  A point is the origin, the destination or the place of a hub   *)
(* Node; the world gives the great-circle distance of every leg and what   *)
(* the public routing service answers for each profile.                    *)

Node(key) == [key |-> key, name |-> key, kind |-> "hub"]
Origin == <<"origin">>
Dest == <<"dest">>
\* (hub.lat, hub.lon)
HubPoint(hub) == <<"hub", hub.key>>

haversine_km(a, b) ==
    IF a = Origin /\ b = Dest THEN world.direct
    ELSE IF a = Origin THEN world.legs[b[2]][1]
    ELSE world.legs[a[2]][2]

StraightPath(a, b) == <<a, b>>

\* what the service can do with one request
Responses == {"route", "no_routes", "not_ok", "malformed", "exception"}

\* road distance the service reports for a leg: longer than the great circle
RoadExtra(profile) ==
    CASE profile = "driving" -> 4 [] profile = "cycling" -> 2 [] profile = "walking" -> 1

ServiceRoute(a, b, profile) ==
    [distance |-> haversine_km(a, b) + RoadExtra(profile), coordinates |-> <<"osrm", a, b, profile>>]

\* r.ok: the request returned and its status is below 400
ResponseOk(response) == response \in {"route", "no_routes", "malformed"}

\* body of osrm_distance_and_shape for the response the service gives
osrm_request(a, b, profile, response) ==
    IF response = "exception" THEN None
    ELSE IF ResponseOk(response)
    THEN IF response = "malformed" THEN None
         ELSE IF response = "route"
         THEN LET data == ServiceRoute(a, b, profile)
              IN  <<data.distance, data.coordinates>>
         ELSE None
    ELSE None

\* the st.cache_data wrapper: a memoised answer is returned without a request
OsrmCached(a, b, profile) == <<a, b, profile>> \in DOMAIN osrm_cache

osrm_distance_and_shape(a, b, profile) ==
    IF OsrmCached(a, b, profile) THEN osrm_cache[<<a, b, profile>>]
    ELSE osrm_request(a, b, profile, world.osrm[profile])

HAVERSINE_ONLY == "Haversine only"
OSRM_ENGINE == "OSRM (open data)"
Engines == {OSRM_ENGINE, HAVERSINE_ONLY}

\* whether route_with_engine reaches the call of osrm_distance_and_shape
CallsOsrm(mode_key, eng) ==
    MODES[mode_key].osrm_profile # NoProfile /\ eng = OSRM_ENGINE

\* the router without the test "if r" before "return r"
route_without_fallback(a, b, mode_key, eng) ==
    LET m == MODES[mode_key]
    IN  IF m.osrm_profile = NoProfile
        THEN <<haversine_km(a, b), StraightPath(a, b)>>
        ELSE IF eng = OSRM_ENGINE
             THEN osrm_distance_and_shape(a, b, m.osrm_profile)
             ELSE <<haversine_km(a, b), StraightPath(a, b)>>

route_with_engine(a, b, mode_key, eng) ==
    LET m == MODES[mode_key]
    IN  IF m.osrm_profile = NoProfile
        THEN <<haversine_km(a, b), StraightPath(a, b)>>
        ELSE LET r == IF eng = OSRM_ENGINE
                      THEN osrm_distance_and_shape(a, b, m.osrm_profile)
                      ELSE None
             IN  IF eng = OSRM_ENGINE /\ r # None THEN r
                 ELSE <<haversine_km(a, b), StraightPath(a, b)>>

-----------------------------------------------------------------------------
(* Impact calculator and candidates.                                       *)

\* the MODES row as the floats its literals denote
ModeFloatTable ==
    [mode_key \in ModeKeys |->
        [emission_kg_per_km |-> Literal(MODES[mode_key].emission_kg_per_km, 3),
         cost_trans         |-> Literal(MODES[mode_key].cost_trans, 6),
         cost_labour        |-> Literal(MODES[mode_key].cost_labour, 6),
         speed_kph          |-> Literal(MODES[mode_key].speed_kph, 2)]] @@ <<>>
ModeFloats(mode_key) == ModeFloatTable[mode_key]

\* the speed floor 1e-6
SPEED_FLOOR == Literal(1, 6)

\* impact_for_leg without the labour cost
impact_without_labour(distance_km, mode_key) ==
    LET m == ModeFloats(mode_key)
    IN  <<FDiv(distance_km, FMax(m.speed_kph, SPEED_FLOOR)),
          FMul(m.emission_kg_per_km, distance_km),
          FMul(m.cost_trans, distance_km)>>

\* impact_for_leg on floats: <<time_h, co2_kg, cost>>
impact_for_leg(distance_km, mode_key) ==
    LET m == ModeFloats(mode_key)
    IN  <<FDiv(distance_km, FMax(m.speed_kph, SPEED_FLOOR)),
          FMul(m.emission_kg_per_km, distance_km),
          FMul(FAdd(m.cost_trans, m.cost_labour), distance_km)>>

\* impact_for_leg over the reals, on the fixed-point grid: the candidate search
\* is checked with this one.  max(speed_kph, 1e-6): every speed is above the floor
impact_exact(distance_km, mode_key) ==
    LET m      == MODES[mode_key]
        time_h == distance_km * (TIME_DEN \div Max(m.speed_kph, 1))
        co2_kg == BigMul(Big(m.emission_kg_per_km), Big(distance_km))
        cost   == BigMul(Big(m.cost_trans + m.cost_labour), Big(distance_km))
    IN  <<time_h, co2_kg, cost>>

\* round(d, 3): the nearest multiple of 0.001 km (5 units; never a tie)
Round3(d) == ((d + 2) \div 5) * 5

Segment(from, to, mode, d, imp, g) ==
    [from |-> from, to |-> to, mode |-> mode, distance_km |-> Round3(d),
     time_h |-> imp[1], co2_kg |-> imp[2], cost |-> imp[3], geometry |-> g]

\* eval_candidate_via_hub with the time of the first leg alone as total time
eval_candidate_first_leg_time(origin, hub, dest, m1, m2, eng) ==
    LET r1 == route_with_engine(origin, HubPoint(hub), m1, eng)
        i1 == impact_exact(r1[1], m1)
        r2 == route_with_engine(HubPoint(hub), dest, m2, eng)
        i2 == impact_exact(r2[1], m2)
    IN  [segs   |-> <<Segment("Start", hub.name, m1, r1[1], i1, r1[2]),
                      Segment(hub.name, "Destination", m2, r2[1], i2, r2[2])>>,
         totals |-> [distance_km |-> Round3(r1[1] + r2[1]), time_h |-> i1[1],
                     co2_kg |-> BigAdd(i1[2], i2[2]), cost |-> BigAdd(i1[3], i2[3])]]

eval_candidate_via_hub(origin, hub, dest, m1, m2, eng) ==
    LET r1 == route_with_engine(origin, HubPoint(hub), m1, eng)
        i1 == impact_exact(r1[1], m1)
        r2 == route_with_engine(HubPoint(hub), dest, m2, eng)
        i2 == impact_exact(r2[1], m2)
    IN  [segs   |-> <<Segment("Start", hub.name, m1, r1[1], i1, r1[2]),
                      Segment(hub.name, "Destination", m2, r2[1], i2, r2[2])>>,
         totals |-> [distance_km |-> Round3(r1[1] + r2[1]), time_h |-> i1[1] + i2[1],
                     co2_kg |-> BigAdd(i1[2], i2[2]), cost |-> BigAdd(i1[3], i2[3])]]

eval_candidate_direct(origin, dest, mode_key, eng) ==
    LET r == route_with_engine(origin, dest, mode_key, eng)
        i == impact_exact(r[1], mode_key)
    IN  [segs   |-> <<Segment("Start", "Destination", mode_key, r[1], i, r[2])>>,
         totals |-> [distance_km |-> Round3(r[1]), time_h |-> i[1],
                     co2_kg |-> i[2], cost |-> i[3]]]

-----------------------------------------------------------------------------
(* Candidate search.                                                       *)

\* the nested loops "for hub in hubs: for m1 in allowed: for m2 in allowed"
ViaHubCandidates(hubs, allowed, origin, dest, eng) ==
    LET n == Len(allowed)
    IN  List([k \in 1..(Len(hubs) * n * n) |->
            LET hub == hubs[((k - 1) \div (n * n)) + 1]
                m1  == allowed[(((k - 1) \div n) % n) + 1]
                m2  == allowed[((k - 1) % n) + 1]
                ev  == eval_candidate_via_hub(origin, hub, dest, m1, m2, eng)
            IN  [hub |-> hub, modes |-> <<m1, m2>>, segments |-> ev.segs,
                 totals |-> ev.totals]])

DirectCandidates(allowed, origin, dest, eng) ==
    List([k \in 1..Len(allowed) |->
        LET ev == eval_candidate_direct(origin, dest, allowed[k], eng)
        IN  [hub |-> None, modes |-> <<allowed[k]>>, segments |-> ev.segs,
             totals |-> ev.totals]])

\* min(seq, key=...) keeps the first element with the least key: an element
\* replaces the best so far only when its key is strictly less.  The scan is
\* folded by halves (the left half wins ties), which keeps the same element.
RECURSIVE BigMinIn(_, _, _)
BigMinIn(keys, lo, hi) ==
    IF lo = hi THEN lo
    ELSE LET mid == (lo + hi) \div 2
             l   == BigMinIn(keys, lo, mid)
             r   == BigMinIn(keys, mid + 1, hi)
         IN  IF BigLess(keys[r], keys[l]) THEN r ELSE l

\* mutant: on a tie the later element wins
RECURSIVE BigMinInLast(_, _, _)
BigMinInLast(keys, lo, hi) ==
    IF lo = hi THEN lo
    ELSE LET mid == (lo + hi) \div 2
             l   == BigMinInLast(keys, lo, mid)
             r   == BigMinInLast(keys, mid + 1, hi)
         IN  IF BigLeq(keys[r], keys[l]) THEN r ELSE l

BigMinIndexLast(keys) == BigMinInLast(keys, 1, Len(keys))

BigMinIndex(keys) == BigMinIn(keys, 1, Len(keys))

\* max(seq): the first element with the greatest value
RECURSIVE BigMaxIn(_, _, _)
BigMaxIn(keys, lo, hi) ==
    IF lo = hi THEN lo
    ELSE LET mid == (lo + hi) \div 2
             l   == BigMaxIn(keys, lo, mid)
             r   == BigMaxIn(keys, mid + 1, hi)
         IN  IF BigLess(keys[l], keys[r]) THEN r ELSE l

BigMaxIndex(keys) == BigMaxIn(keys, 1, Len(keys))

\* mutant: no guard for an empty range
normUnguarded(x, lo, hi) == Rat(BigSub(x, lo), BigSub(hi, lo))

\* norm(x, lo, hi)
norm(x, lo, hi) == IF hi = lo THEN RatZero ELSE Rat(BigSub(x, lo), BigSub(hi, lo))

EmptyResults == [all |-> <<>>, min_co2 |-> 0, min_cost |-> 0, best_combo |-> None]

\* [r["totals"][field] for r in results]
Totals(found, field) == List([k \in DOMAIN found |-> found[k].totals[field]])

\* the min-max scores of a list of totals: norm(x, min(vals), max(vals))
Scores(vals) ==
    LET lo == vals[BigMinIndex(vals)]
        hi == vals[BigMaxIndex(vals)]
    IN  List([k \in DOMAIN vals |-> norm(vals[k], lo, hi)])

\* mutant: the fixed hub is ignored
CandidatesAllHubs(city, city_obj, origin, dest, eng, via_hub, fixed_hub) ==
    IF via_hub
    THEN ViaHubCandidates(city_obj.micro_hubs, Allowed(city), origin, dest, eng)
    ELSE DirectCandidates(Allowed(city), origin, dest, eng)

\* the candidate loops of search_best_routes
Candidates(city, city_obj, origin, dest, eng, via_hub, fixed_hub) ==
    IF via_hub
    THEN ViaHubCandidates(IF fixed_hub # None THEN <<fixed_hub>> ELSE city_obj.micro_hubs,
                          Allowed(city), origin, dest, eng)
    ELSE DirectCandidates(Allowed(city), origin, dest, eng)

\* the selection and scoring of search_best_routes for a non-empty list;
\* min_co2 and min_cost are held as indexes into "all" (0: None)
Selected(found) ==
    LET nco2  == Scores(Totals(found, "co2_kg"))
        ncost == Scores(Totals(found, "cost"))
    IN  [all |-> [k \in DOMAIN found |->
                     [hub |-> found[k].hub, modes |-> found[k].modes,
                      segments |-> found[k].segments, totals |-> found[k].totals,
                      score_norm_co2 |-> nco2[k], score_norm_cost |-> ncost[k]]],
         min_co2 |-> BigMinIndex(Totals(found, "co2_kg")),
         min_cost |-> BigMinIndex(Totals(found, "cost")),
         best_combo |-> None]

search_best_routes(city, city_obj, origin, dest, eng, via_hub, fixed_hub) ==
    LET found == Candidates(city, city_obj, origin, dest, eng, via_hub, fixed_hub)
    IN  IF found = <<>> THEN EmptyResults ELSE Selected(found)

\* weights are multiples of the slider's step 0.05 = 1/WDen
WDen == 20

\* max(0.0, min(1.0, weight_cost))
ClampWeight(weight_cost) == Max(0, Min(WDen, weight_cost))

\* mutant: the weight is put on CO2 instead of cost
ComboKeySwapped(r, w) ==
    RatAdd(RatMul(Rat(Big(w), Big(WDen)), r.score_norm_co2),
           RatMul(Rat(Big(WDen - w), Big(WDen)), r.score_norm_cost))

ComboKey(r, w) ==
    RatAdd(RatMul(Rat(Big(w), Big(WDen)), r.score_norm_cost),
           RatMul(Rat(Big(WDen - w), Big(WDen)), r.score_norm_co2))

RECURSIVE RatMinIn(_, _, _)
RatMinIn(keys, lo, hi) ==
    IF lo = hi THEN lo
    ELSE LET mid == (lo + hi) \div 2
             l   == RatMinIn(keys, lo, mid)
             r   == RatMinIn(keys, mid + 1, hi)
         IN  IF RatLess(keys[r], keys[l]) THEN r ELSE l

\* mutant: on a tie the later element wins
RECURSIVE RatMinInLast(_, _, _)
RatMinInLast(keys, lo, hi) ==
    IF lo = hi THEN lo
    ELSE LET mid == (lo + hi) \div 2
             l   == RatMinInLast(keys, lo, mid)
             r   == RatMinInLast(keys, mid + 1, hi)
         IN  IF RatLeq(keys[r], keys[l]) THEN r ELSE l

RatMinIndexLast(keys) == RatMinInLast(keys, 1, Len(keys))

\* mutant: the greatest key instead of the least
RECURSIVE RatMaxIn(_, _, _)
RatMaxIn(keys, lo, hi) ==
    IF lo = hi THEN lo
    ELSE LET mid == (lo + hi) \div 2
             l   == RatMaxIn(keys, lo, mid)
             r   == RatMaxIn(keys, mid + 1, hi)
         IN  IF RatLess(keys[l], keys[r]) THEN r ELSE l

RatMaxIndex(keys) == RatMaxIn(keys, 1, Len(keys))

RatMinIndex(keys) == RatMinIn(keys, 1, Len(keys))

\* returns the index of the chosen element of results_dict["all"] (0: None)
pick_best_combo(results_dict, weight_cost) ==
    LET res == results_dict.all
    IN  IF res = <<>> THEN 0
        ELSE LET w == ClampWeight(weight_cost)
             IN  RatMinIndex(List([k \in DOMAIN res |-> ComboKey(res[k], w)]))

-----------------------------------------------------------------------------
(* Baseline builder.                                                       *)

\* city: the object of the selected city
CityObj == [micro_hubs |-> micro_hubs]

\* best_d starts at 1e18, beyond every distance
FAR_AWAY == 2 ^ 30

RECURSIVE NearestFrom(_, _, _, _, _)
NearestFrom(hubs, dest, i, best, best_d) ==
    IF i > Len(hubs) THEN best
    ELSE IF haversine_km(HubPoint(hubs[i]), dest) < best_d
         THEN NearestFrom(hubs, dest, i + 1, hubs[i], haversine_km(HubPoint(hubs[i]), dest))
         ELSE NearestFrom(hubs, dest, i + 1, best, best_d)

\* the hub nearest to the start instead of the destination
RECURSIVE NearestToStartFrom(_, _, _, _)
NearestToStartFrom(hubs, i, best, best_d) ==
    IF i > Len(hubs) THEN best
    ELSE IF haversine_km(Origin, HubPoint(hubs[i])) < best_d
         THEN NearestToStartFrom(hubs, i + 1, hubs[i], haversine_km(Origin, HubPoint(hubs[i])))
         ELSE NearestToStartFrom(hubs, i + 1, best, best_d)

nearest_to_start(city_obj, dest) == NearestToStartFrom(city_obj.micro_hubs, 1, None, FAR_AWAY)

nearest_micro(city_obj, dest) == NearestFrom(city_obj.micro_hubs, dest, 1, None, FAR_AWAY)

\* the chain without the filter: as given, or truck alone
BaselineChainUnfiltered(chain) == IF chain = <<>> THEN <<"truck">> ELSE chain

\* the chain make_baseline works with: allowed known modes, or truck alone
BaselineChain(chain) ==
    LET kept == SelectSeq(chain, LAMBDA m : m \in Range(Allowed(city_name)) /\ m \in ModeKeys)
    IN  IF kept = <<>> THEN <<"truck">> ELSE kept

\* d_mid = 0.5
D_MID == UNITS_PER_KM \div 2

\* the middle modes of the chain skipped: no transfer segment at the hub
NoTransfers(chain, hub) == <<>>

\* the transfer segments of chain[1:-1] at the hub
Transfers(chain, hub) ==
    [idx \in 1..(Len(chain) - 2) |->
        Segment(<<hub.name, "Xfer", idx>>, <<hub.name, "Xfer", idx, "end">>, chain[idx + 1],
                D_MID, impact_exact(D_MID, chain[idx + 1]),
                <<HubPoint(hub), <<"beside", hub.key>>>>)] \o <<>>

BaselineLeg(from, to, a, b, mode, eng) ==
    Segment(from, to, mode, route_with_engine(a, b, mode, eng)[1],
            impact_exact(route_with_engine(a, b, mode, eng)[1], mode),
            route_with_engine(a, b, mode, eng)[2])

BaselineSegs(origin, dest, chain, via_hub, chosen_hub) ==
    IF via_hub
    THEN <<BaselineLeg("Start", chosen_hub.name, origin, HubPoint(chosen_hub), chain[1], engine)>>
         \o Transfers(chain, chosen_hub)
         \o <<BaselineLeg(chosen_hub.name, "Destination", HubPoint(chosen_hub), dest,
                          chain[Len(chain)], engine)>>
    ELSE <<BaselineLeg("Start", "Destination", origin, dest, chain[1], engine)>>

\* sum(s[field] for s in segs) of a float field held as an integer
RECURSIVE SumInt(_, _, _)
SumInt(segs, field, i) ==
    IF i = 0 THEN 0 ELSE SumInt(segs, field, i - 1) + segs[i][field]

\* sum(s[field] for s in segs) of a float field held as a Big
RECURSIVE SumBig(_, _, _)
SumBig(segs, field, i) ==
    IF i = 0 THEN BigZero ELSE BigAdd(SumBig(segs, field, i - 1), segs[i][field])

BaselineTotals(segs) ==
    [distance_km |-> SumInt(segs, "distance_km", Len(segs)),
     time_h      |-> SumInt(segs, "time_h", Len(segs)),
     co2_kg      |-> SumBig(segs, "co2_kg", Len(segs)),
     cost        |-> SumBig(segs, "cost", Len(segs))]

\* chosen_hub.lat of chosen_hub = None
AttributeError == <<"raised", "AttributeError">>

ChosenHub(dest, via_hub, hub_override) ==
    IF ~via_hub THEN None
    ELSE IF hub_override # None THEN hub_override
    ELSE nearest_micro(CityObj, dest)

\* make_baseline reads city_name, city and engine, the globals of the script
make_baseline(origin, dest, chain, via_hub, hub_override) ==
    IF via_hub /\ ChosenHub(dest, via_hub, hub_override) = None THEN AttributeError
    ELSE LET segs == BaselineSegs(origin, dest, BaselineChain(chain), via_hub,
                                  ChosenHub(dest, via_hub, hub_override))
         IN  <<segs, BaselineTotals(segs), ChosenHub(dest, via_hub, hub_override)>>

-----------------------------------------------------------------------------
(* Geocoder.  An address is a sequence of characters; the cache file is    *)
(* missing or holds a JSON object from keys to [lat, lon] or null.         *)

RECURSIVE LStrip(_)
LStrip(s) == IF s # <<>> /\ Head(s) = " " THEN LStrip(Tail(s)) ELSE s

RECURSIVE RStrip(_)
RStrip(s) == IF s # <<>> /\ s[Len(s)] = " " THEN RStrip(SubSeq(s, 1, Len(s) - 1)) ELSE s

\* addr.strip()
Strip(addr) == RStrip(LStrip(addr))

MissingFile == [exists |-> FALSE, data |-> <<>>]

\* lines 226-234: the dict loaded from the cache file, {} without a file
LoadCache(file) == IF file.exists THEN file.data ELSE <<>>

\* _cache[key] = val
Put(cache, key, val) == (key :> val) @@ cache

\* range(4)
ATTEMPTS == 4

\* what one request to the geocoding service comes to
Exception == <<"exception">>
TooManyRequests == <<"429">>
HttpError == <<"error">>
Malformed == <<"malformed">>
Empty == <<"empty">>
Found(lat, lon) == <<"found", lat, lon>>
Transient == {Exception, TooManyRequests, HttpError, Malformed}

\* time.sleep(wait) of a failed attempt, in half seconds
Wait(outcome, attempt) == IF outcome = TooManyRequests THEN 2 + 4 * attempt ELSE 2 ^ attempt

\* a retry loop that gives up at the first 429 instead of backing off
RECURSIVE RetryUntilRateLimited(_, _, _, _, _)
RetryUntilRateLimited(attempt, script, key, cache, slept) ==
    IF attempt = ATTEMPTS \/ script[attempt + 1] = TooManyRequests
    THEN [ret |-> None, requests |-> Min(attempt + 1, ATTEMPTS), slept |-> slept,
          data |-> Put(cache, key, None), wrote |-> TRUE]
    ELSE IF script[attempt + 1] \in Transient
         THEN RetryUntilRateLimited(attempt + 1, script, key, cache,
                                    slept + Wait(script[attempt + 1], attempt))
         ELSE IF script[attempt + 1] = Empty
              THEN [ret |-> None, requests |-> attempt + 1, slept |-> slept,
                    data |-> Put(cache, key, None), wrote |-> TRUE]
              ELSE [ret |-> <<script[attempt + 1][2], script[attempt + 1][3]>>,
                    requests |-> attempt + 1, slept |-> slept,
                    data |-> Put(cache, key, <<script[attempt + 1][2], script[attempt + 1][3]>>),
                    wrote |-> TRUE]

\* a retry loop that does not write the cache file when all attempts failed
RECURSIVE RetryForgettingFailures(_, _, _, _, _)
RetryForgettingFailures(attempt, script, key, cache, slept) ==
    IF attempt = ATTEMPTS
    THEN [ret |-> None, requests |-> ATTEMPTS, slept |-> slept,
          data |-> cache, wrote |-> FALSE]
    ELSE IF script[attempt + 1] \in Transient
         THEN RetryForgettingFailures(attempt + 1, script, key, cache,
                                      slept + Wait(script[attempt + 1], attempt))
         ELSE IF script[attempt + 1] = Empty
              THEN [ret |-> None, requests |-> attempt + 1, slept |-> slept,
                    data |-> Put(cache, key, None), wrote |-> TRUE]
              ELSE [ret |-> <<script[attempt + 1][2], script[attempt + 1][3]>>,
                    requests |-> attempt + 1, slept |-> slept,
                    data |-> Put(cache, key, <<script[attempt + 1][2], script[attempt + 1][3]>>),
                    wrote |-> TRUE]

\* the retry loop from attempt on: the service answers request k with script[k]
RECURSIVE Retry(_, _, _, _, _)
Retry(attempt, script, key, cache, slept) ==
    IF attempt = ATTEMPTS
    THEN [ret |-> None, requests |-> ATTEMPTS, slept |-> slept,
          data |-> Put(cache, key, None), wrote |-> TRUE]
    ELSE IF script[attempt + 1] \in Transient
         THEN Retry(attempt + 1, script, key, cache, slept + Wait(script[attempt + 1], attempt))
         ELSE IF script[attempt + 1] = Empty
              THEN [ret |-> None, requests |-> attempt + 1, slept |-> slept,
                    data |-> Put(cache, key, None), wrote |-> TRUE]
              ELSE [ret |-> <<script[attempt + 1][2], script[attempt + 1][3]>>,
                    requests |-> attempt + 1, slept |-> slept,
                    data |-> Put(cache, key, <<script[attempt + 1][2], script[attempt + 1][3]>>),
                    wrote |-> TRUE]

NoEffect(ret, cache) ==
    [ret |-> ret, requests |-> 0, slept |-> 0, data |-> cache, wrote |-> FALSE]

\* the body of geocode_address with key = addr
geocode_body_unstripped(addr, file, script) ==
    IF addr = <<>> THEN NoEffect(None, LoadCache(file))
    ELSE IF addr \in DOMAIN LoadCache(file)
         THEN IF LoadCache(file)[addr] = None
              THEN NoEffect(None, LoadCache(file))
              ELSE NoEffect(<<LoadCache(file)[addr][1], LoadCache(file)[addr][2]>>,
                            LoadCache(file))
         ELSE Retry(0, script, addr, LoadCache(file), 0)

\* the body of geocode_address: what it returns, the requests it sends, and the
\* dict it writes to the cache file if it writes
geocode_body(addr, file, script) ==
    IF Strip(addr) = <<>> THEN NoEffect(None, LoadCache(file))
    ELSE IF Strip(addr) \in DOMAIN LoadCache(file)
         THEN IF LoadCache(file)[Strip(addr)] = None
              THEN NoEffect(None, LoadCache(file))
              ELSE NoEffect(<<LoadCache(file)[Strip(addr)][1], LoadCache(file)[Strip(addr)][2]>>,
                            LoadCache(file))
         ELSE Retry(0, script, Strip(addr), LoadCache(file), 0)

\* geocode_address under st.cache_data: an addr seen before is answered from the memo
GeocodeMemoised(addr) == addr \in DOMAIN geocode_memo

geocode_address(addr, file, script) ==
    IF GeocodeMemoised(addr) THEN NoEffect(geocode_memo[addr], LoadCache(file))
    ELSE geocode_body(addr, file, script)

\* the cache file after the call: written if the call writes and the write succeeds
FileAfter(file, effect, write_ok) ==
    IF effect.wrote /\ write_ok THEN [exists |-> TRUE, data |-> effect.data] ELSE file

-----------------------------------------------------------------------------
(* Bounded inputs.                                                         *)

\* micro-hubs a city object holds in the model (the code keeps up to 10)
MaxHubs == 2

\* great-circle distances origin -> dest, and (origin -> hub, hub -> dest)
DirectDists == {0, 7, 12}
LegPairs == {<<2, 2>>, <<6, 13>>}
Coincident == <<0, 0>>

\* the legs of n hubs: every hub at one of LegPairs, or all hubs at the origin
\* and destination at once; with a fixed hub only that hub's legs vary
HubLayouts(n, fixed_hub) ==
    IF fixed_hub = None
    THEN [1..n -> LegPairs] \cup {[h \in 1..n |-> Coincident]}
    ELSE {[h \in 1..n |-> IF h = fixed_hub.key THEN p ELSE <<2, 2>>] :
            p \in LegPairs \cup {Coincident}}

AllServed == [p \in Profiles |-> "route"]
DrivingOnly == [p \in Profiles |-> IF p = "driving" THEN "route" ELSE "not_ok"]
Unreachable == [p \in Profiles |-> "exception"]
ServiceStates == {AllServed, DrivingOnly}

\* weights handed to pick_best_combo: the slider's ends and default, a quarter,
\* and one step outside the range on either side
Weights == {0 - 1, 0, 5, 10, WDen, WDen + 1}

NoCache == <<>>
Idle == [op |-> None]

-----------------------------------------------------------------------------
(* Specification of the candidate search: search_best_routes applied to    *)
(* bounded arguments, then pick_best_combo applied to its result.          *)

SearchArgs ==
    {[via_hub |-> FALSE, fixed_hub |-> None, n_hubs |-> 1]}
    \cup {[via_hub |-> TRUE, fixed_hub |-> f, n_hubs |-> n] :
            n \in 0..MaxHubs, f \in {None} \cup {Node(h) : h \in 1..MaxHubs}}

InitSearch ==
    /\ pc = "ready"
    /\ city_name \in CityNames
    /\ engine \in Engines
    /\ \E a \in SearchArgs :
          /\ a.fixed_hub # None => a.fixed_hub.key <= a.n_hubs
          /\ args = [via_hub |-> a.via_hub, fixed_hub |-> a.fixed_hub]
          /\ micro_hubs = [h \in 1..a.n_hubs |-> Node(h)]
          /\ \E d \in DirectDists, l \in HubLayouts(a.n_hubs, a.fixed_hub),
                o \in ServiceStates :
                /\ a.via_hub => d = 7
                /\ ~a.via_hub => l = [h \in 1..a.n_hubs |-> Coincident]
                /\ engine = HAVERSINE_ONLY => o = AllServed
                /\ world = [direct |-> d, legs |-> l, osrm |-> o]
    /\ results = None
    /\ best_combo = 0
    /\ baseline = None
    /\ candidate = None
    /\ route = Idle
    /\ osrm_cache = NoCache
    /\ impact = Idle
    /\ cache_file = <<>>
    /\ geo = Idle
    /\ geocode_memo = NoCache
    /\ CITY_GRAPH = <<>>
    /\ CITY_NAMES = <<>>

\* the legs the search routes, and the routing profiles of the allowed modes
SearchLegs(hubs, via_hub, fixed_hub) ==
    IF ~via_hub THEN {<<Origin, Dest>>}
    ELSE UNION {{<<Origin, HubPoint(h)>>, <<HubPoint(h), Dest>>} :
                  h \in IF fixed_hub # None THEN {fixed_hub} ELSE Range(hubs)}

AllowedProfiles(city) ==
    {MODES[m].osrm_profile : m \in Range(Allowed(city))} \ {NoProfile}

\* the memo of osrm_distance_and_shape after the legs were routed
Memoised(legs, profiles, eng) ==
    IF eng # OSRM_ENGINE THEN osrm_cache
    ELSE [t \in {<<l[1], l[2], p>> : l \in legs, p \in profiles} |->
             osrm_distance_and_shape(t[1], t[2], t[3])] @@ osrm_cache

SearchBestRoutes ==
    /\ pc = "ready"
    /\ results' = search_best_routes(city_name, CityObj, Origin, Dest, engine,
                                     args.via_hub, args.fixed_hub)
    /\ osrm_cache' = Memoised(SearchLegs(micro_hubs, args.via_hub, args.fixed_hub),
                              AllowedProfiles(city_name), engine)
    /\ pc' = "searched"
    /\ UNCHANGED <<CITY_GRAPH, CITY_NAMES, city_name, engine, micro_hubs, world, args, best_combo, baseline,
                   route, impact, cache_file, geo, candidate,
                   geocode_memo>>

PickBestCombo ==
    /\ pc = "searched"
    /\ \E w \in Weights :
          /\ best_combo' = pick_best_combo(results, w)
          /\ args' = [via_hub |-> args.via_hub, fixed_hub |-> args.fixed_hub,
                       weight_cost |-> w]
    /\ pc' = "picked"
    /\ UNCHANGED <<CITY_GRAPH, CITY_NAMES, city_name, engine, micro_hubs, world, results, baseline,
                   route, osrm_cache, impact, cache_file, geo, candidate,
                   geocode_memo>>

NextSearch == SearchBestRoutes \/ PickBestCombo

SpecSearch == InitSearch /\ [][NextSearch]_vars

-----------------------------------------------------------------------------
(* Properties of the candidate search.                                     *)

Searched == pc = "searched"
Picked == pc = "picked"
All == results.all
Co2(k) == All[k].totals.co2_kg
Cost(k) == All[k].totals.cost

\* the hub set the search is to enumerate
HubSet == IF args.fixed_hub # None THEN {args.fixed_hub} ELSE Range(micro_hubs)
AllowedSet == Range(Allowed(city_name))
Triple(k) == <<All[k].hub, All[k].modes[1], All[k].modes[2]>>

\* C1: search_best_routes builds exactly the candidate set: direct, one
\* candidate per allowed mode and no hub; via hub, one candidate per triple
\* (hub, m1, m2) of the hub set and the allowed modes, none twice; only
\* allowed modes are used and there are at most 11 * 11 * 10 candidates.
C1_CandidateSet ==
    Searched =>
        /\ ~args.via_hub =>
              /\ Len(All) = Len(Allowed(city_name))
              /\ \A k \in DOMAIN All : All[k].hub = None /\ Len(All[k].modes) = 1
              /\ {All[k].modes[1] : k \in DOMAIN All} = AllowedSet
        /\ args.via_hub =>
              /\ Len(All) = Cardinality(HubSet) * Cardinality(AllowedSet) * Cardinality(AllowedSet)
              /\ \A k \in DOMAIN All : Len(All[k].modes) = 2
              /\ {Triple(k) : k \in DOMAIN All} = HubSet \X AllowedSet \X AllowedSet
              /\ \A j, k \in DOMAIN All : Triple(j) = Triple(k) => j = k
        /\ \A k \in DOMAIN All :
              /\ Range(All[k].modes) \subseteq AllowedSet
              /\ \A i \in DOMAIN All[k].segments : All[k].segments[i].mode \in AllowedSet
        /\ Len(All) <= 11 * 11 * 10

C1_Witness ==
    /\ Searched
    /\ args.via_hub /\ args.fixed_hub = None
    /\ Len(micro_hubs) = 2
    /\ city_name = "Hamburg, Germany"
    /\ Len(All) = 2 * 7 * 7
    /\ \E k \in DOMAIN All : All[k].modes[1] = All[k].modes[2]

\* i is the first index whose value is the least of vals
FirstLeast(i, vals) ==
    /\ i \in DOMAIN vals
    /\ \A j \in DOMAIN vals :
          IF j < i THEN BigLess(vals[i], vals[j]) ELSE BigLeq(vals[i], vals[j])

Co2Vals == [k \in DOMAIN All |-> Co2(k)]
CostVals == [k \in DOMAIN All |-> Cost(k)]

\* C2: min_co2 (min_cost) is a member of the candidate list whose total CO2
\* (cost) is at most that of every candidate, the first such in enumeration
\* order; for an empty list all, min_co2, min_cost, best_combo are empty/None.
C2_MinSelection ==
    Searched =>
        IF All # <<>>
        THEN /\ FirstLeast(results.min_co2, Co2Vals)
             /\ FirstLeast(results.min_cost, CostVals)
        ELSE results.min_co2 = 0 /\ results.min_cost = 0 /\ results.best_combo = None

\* several candidates share the least CO2, others lie above it, and the
\* cost optimum is another candidate
C2_Witness ==
    /\ Searched
    /\ All # <<>>
    /\ \E j \in DOMAIN All : j > results.min_co2 /\ Co2(j) = Co2(results.min_co2)
    /\ \E j \in DOMAIN All : BigLess(Co2(results.min_co2), Co2(j))
    /\ results.min_cost # results.min_co2

\* the least and the greatest value of a non-empty list of totals
Least(vals) == vals[CHOOSE i \in DOMAIN vals : \A j \in DOMAIN vals : BigLeq(vals[i], vals[j])]
Greatest(vals) == vals[CHOOSE i \in DOMAIN vals : \A j \in DOMAIN vals : BigLeq(vals[j], vals[i])]

\* scores is the min-max normalisation of vals
MinMaxScored(vals, scores) ==
    LET lo == Least(vals)
        hi == Greatest(vals)
    IN  \A k \in DOMAIN vals :
           /\ BigLeq(scores[k].n, scores[k].d) /\ scores[k].d # BigZero
           /\ IF lo = hi THEN scores[k].n = BigZero
              ELSE /\ RatEq(scores[k], Rat(BigSub(vals[k], lo), BigSub(hi, lo)))
                   /\ vals[k] = lo => scores[k].n = BigZero
                   /\ vals[k] = hi => scores[k].n = scores[k].d

\* C3: every candidate carries score_norm_co2 and score_norm_cost, the
\* min-max normalisation over the whole candidate set: in [0, 1], 0 for a
\* least total, 1 for a greatest total when max differs from min, and 0 for
\* every candidate (without a division) when all totals are equal.
C3_Normalised ==
    (Searched /\ All # <<>>) =>
        /\ MinMaxScored(Co2Vals, [k \in DOMAIN All |-> All[k].score_norm_co2])
        /\ MinMaxScored(CostVals, [k \in DOMAIN All |-> All[k].score_norm_cost])

\* a candidate strictly between the extremes scores strictly between 0 and 1
C3_Witness ==
    /\ Searched
    /\ All # <<>>
    /\ \E k \in DOMAIN All :
          /\ All[k].score_norm_co2.n # BigZero
          /\ BigLess(All[k].score_norm_co2.n, All[k].score_norm_co2.d)
          /\ All[k].score_norm_cost.n # BigZero
          /\ BigLess(All[k].score_norm_cost.n, All[k].score_norm_cost.d)
    /\ \E k \in DOMAIN All : All[k].score_norm_cost.n = All[k].score_norm_cost.d

\* all totals equal: the range is empty and every score is 0
C3_WitnessFlat ==
    /\ Searched
    /\ Len(All) > 1
    /\ \A k \in DOMAIN All : Cost(k) = Cost(1) /\ All[k].score_norm_cost = RatZero

\* w clamped to [0, 1], in units of 1/WDen
Clamped(w) == IF w < 0 THEN 0 ELSE IF w > WDen THEN WDen ELSE w

\* WDen * (w' * score_norm_cost + (1 - w') * score_norm_co2)
Blend(k, w) ==
    RatAdd(RatMul(Rat(Big(Clamped(w)), Big(1)), All[k].score_norm_cost),
           RatMul(Rat(Big(WDen - Clamped(w)), Big(1)), All[k].score_norm_co2))

\* i is the first candidate with the least blend for weight w
FirstLeastBlend(i, w) ==
    /\ i \in DOMAIN All
    /\ LET bi == Blend(i, w)
       IN  \A j \in DOMAIN All :
              IF j < i THEN RatLess(bi, Blend(j, w)) ELSE RatLeq(bi, Blend(j, w))

\* C4: pick_best_combo returns a member of the candidate list that minimises
\* w' * score_norm_cost + (1 - w') * score_norm_co2 for w' = w clamped to
\* [0, 1], the first such in enumeration order, and None for an empty list;
\* a weight below 0 acts as 0 and a weight above 1 as 1.
C4_PickBestCombo ==
    Picked =>
        IF All = <<>> THEN best_combo = 0
        ELSE /\ FirstLeastBlend(best_combo, args.weight_cost)
             /\ args.weight_cost < 0 => best_combo = pick_best_combo(results, 0)
             /\ args.weight_cost > WDen => best_combo = pick_best_combo(results, WDen)

\* an interior weight picks a candidate that is neither single-criterion optimum
C4_Witness ==
    /\ Picked
    /\ All # <<>>
    /\ args.weight_cost > 0 /\ args.weight_cost < WDen
    /\ best_combo # results.min_co2 /\ best_combo # results.min_cost

\* a weight outside [0, 1] is clamped
C4_WitnessClamped ==
    /\ Picked
    /\ All # <<>>
    /\ args.weight_cost > WDen
    /\ best_combo # results.min_co2

\* C5: with weight 0 pick_best_combo returns the list element returned as
\* min_co2, with weight 1 the element returned as min_cost, also on ties.
C5_Endpoints ==
    (Picked /\ All # <<>>) =>
        /\ args.weight_cost = 0 => best_combo = results.min_co2
        /\ args.weight_cost = WDen => best_combo = results.min_cost

\* weight 0 with several candidates of least CO2, and a different cost optimum
C5_Witness ==
    /\ Picked
    /\ All # <<>>
    /\ args.weight_cost = 0
    /\ \E j \in DOMAIN All : j # best_combo /\ Co2(j) = Co2(best_combo)
    /\ results.min_cost # best_combo

\* candidate j is strictly better than candidate i in both cost and CO2
Dominates(j, i) == BigLess(Cost(j), Cost(i)) /\ BigLess(Co2(j), Co2(i))
Undominated(i) == \A j \in DOMAIN All : ~Dominates(j, i)

\* C6: for every weight in [0, 1] no candidate is strictly lower in both
\* total cost and total CO2 than the candidate returned as min_co2, as
\* min_cost or by pick_best_combo.
C6_Undominated ==
    (Picked /\ All # <<>> /\ args.weight_cost >= 0 /\ args.weight_cost <= WDen) =>
        /\ Undominated(results.min_co2)
        /\ Undominated(results.min_cost)
        /\ Undominated(best_combo)

\* some candidate is dominated, and the three selected ones differ
C6_Witness ==
    /\ Picked
    /\ All # <<>>
    /\ args.weight_cost > 0 /\ args.weight_cost < WDen
    /\ \E i, j \in DOMAIN All : Dominates(j, i)
    /\ best_combo # results.min_co2 /\ best_combo # results.min_cost

-----------------------------------------------------------------------------
(* Specification of the router: route_with_engine called for the leg       *)
(* origin -> dest with any mode and engine, while the routing service      *)
(* changes what it answers and the memo of osrm_distance_and_shape fills.  *)

\* what the service answers: the same to every profile, or driving only
RouteServiceStates == {[p \in Profiles |-> r] : r \in Responses} \cup {DrivingOnly}

InitRoute ==
    /\ pc = "routing"
    /\ city_name \in {CITY_LIST[1]}
    /\ engine = OSRM_ENGINE
    /\ micro_hubs = <<>>
    /\ \E d \in DirectDists : world = [direct |-> d, legs |-> <<>>, osrm |-> AllServed]
    /\ args = [via_hub |-> FALSE, fixed_hub |-> None]
    /\ results = None
    /\ best_combo = 0
    /\ baseline = None
    /\ candidate = None
    /\ route = Idle
    /\ osrm_cache = NoCache
    /\ impact = Idle
    /\ cache_file = <<>>
    /\ geo = Idle
    /\ geocode_memo = NoCache
    /\ CITY_GRAPH = <<>>
    /\ CITY_NAMES = <<>>

\* one call route_with_engine(origin, dest, mode_key, MODES, eng); route records
\* the call, what it returned, whether a request went out and its response
RouteWithEngine ==
    /\ pc = "routing"
    /\ \E mode_key \in ModeKeys, eng \in Engines :
          LET profile == MODES[mode_key].osrm_profile
              sent    == CallsOsrm(mode_key, eng) /\ ~OsrmCached(Origin, Dest, profile)
          IN  /\ route' = [op |-> "route_with_engine", a |-> Origin, b |-> Dest,
                           mode_key |-> mode_key, engine |-> eng,
                           ret |-> route_with_engine(Origin, Dest, mode_key, eng),
                           requested |-> sent,
                           response |-> IF sent THEN world.osrm[profile] ELSE "unasked"]
              /\ osrm_cache' = IF sent
                               THEN Memoised({<<Origin, Dest>>}, {profile}, eng)
                               ELSE osrm_cache
              /\ engine' = eng
    /\ UNCHANGED <<CITY_GRAPH, CITY_NAMES, pc, city_name, micro_hubs, world, args, results, best_combo,
                   baseline, impact, cache_file, geo, candidate,
                   geocode_memo>>

\* the routing service comes up, goes down or starts answering differently
ServiceChanges ==
    /\ pc = "routing"
    /\ \E o \in RouteServiceStates : world' = [world EXCEPT !.osrm = o]
    /\ UNCHANGED <<CITY_GRAPH, CITY_NAMES, pc, city_name, engine, micro_hubs, args, results, best_combo,
                   baseline, route, osrm_cache, impact, cache_file, geo, candidate,
                   geocode_memo>>

NextRoute == RouteWithEngine \/ ServiceChanges

SpecRoute == InitRoute /\ [][NextRoute]_vars

Routed == route # Idle
GreatCircle == <<haversine_km(Origin, Dest), <<Origin, Dest>>>>
ServiceAnswer(profile) ==
    <<haversine_km(Origin, Dest) + RoadExtra(profile), <<"osrm", Origin, Dest, profile>>>>

\* C7: route_with_engine always returns a (distance, path) pair, never None.
\* A mode without a routing profile gets the great-circle distance and the
\* two-point path and no request is sent, whatever the engine; with the engine
\* "Haversine only" no request is sent for any mode; with the engine
\* "OSRM (open data)" and a mode with a profile, a request answered with a route
\* gives the service's distance and path, and a request that raised, was not
\* OK, had no route or could not be read gives the great-circle distance and
\* the two-point path.
C7_RouteWithEngine ==
    Routed =>
        LET profile == MODES[route.mode_key].osrm_profile
        IN  /\ route.ret # None
            /\ Len(route.ret) = 2
            /\ route.ret[1] \in Nat
            /\ profile = NoProfile => route.ret = GreatCircle /\ ~route.requested
            /\ route.engine = HAVERSINE_ONLY => route.ret = GreatCircle /\ ~route.requested
            /\ route.requested =>
                  /\ route.engine = OSRM_ENGINE /\ profile # NoProfile
                  /\ route.response = "route" => route.ret = ServiceAnswer(profile)
                  /\ route.response # "route" => route.ret = GreatCircle

\* a request went out and came back with a route that differs from the great circle
C7_Witness ==
    /\ Routed
    /\ route.requested
    /\ route.response = "route"
    /\ route.ret # GreatCircle

\* a request went out and failed, and the great circle was returned
C7_WitnessFallback ==
    /\ Routed
    /\ route.requested
    /\ route.response \in {"exception", "not_ok", "no_routes", "malformed"}
    /\ route.ret = GreatCircle

-----------------------------------------------------------------------------
(* Specification of the impact calculator: impact_for_leg applied to two   *)
(* distances and then to their sum d1 + d2, for one mode.                  *)

\* leg distances in metres (d = metres / 1000 km)
ImpactDists == {0, 1000, 3000, 4000, 12345}

InitImpact ==
    /\ pc = "impact"
    /\ city_name \in {CITY_LIST[1], CITY_LIST[2]}
    /\ engine \in Engines
    /\ micro_hubs = <<>>
    /\ world = [direct |-> 0, legs |-> <<>>, osrm |-> AllServed]
    /\ \E d1 \in ImpactDists, d2 \in ImpactDists, mode_key \in ModeKeys :
          args = [d1 |-> Literal(d1, 3), d2 |-> Literal(d2, 3), mode_key |-> mode_key]
    /\ results = None
    /\ best_combo = 0
    /\ baseline = None
    /\ candidate = None
    /\ route = Idle
    /\ osrm_cache = NoCache
    /\ impact = <<>>
    /\ cache_file = <<>>
    /\ geo = Idle
    /\ geocode_memo = NoCache
    /\ CITY_GRAPH = <<>>
    /\ CITY_NAMES = <<>>

\* the distances the calculator is applied to, in turn
ImpactInputs == <<args.d1, args.d2, FAdd(args.d1, args.d2)>>

\* one call impact_for_leg(d, mode_key); impact lists the calls made so far
ImpactForLeg ==
    /\ pc = "impact"
    /\ Len(impact) < Len(ImpactInputs)
    /\ LET d == ImpactInputs[Len(impact) + 1]
       IN  impact' = Append(impact, [distance_km |-> d, mode_key |-> args.mode_key,
                                     ret |-> impact_for_leg(d, args.mode_key)])
    /\ UNCHANGED <<CITY_GRAPH, CITY_NAMES, pc, city_name, engine, micro_hubs, world, args, results, best_combo,
                   baseline, route, osrm_cache, cache_file, geo, candidate,
                   geocode_memo>>

NextImpact == ImpactForLeg

SpecImpact == InitImpact /\ [][NextImpact]_vars

\* m * 2^e as a natural in units of 2^base, base <= e
Scaled(m, e, base) == BigMul(m, Pow2(e - base))

BigDist(x, y) == IF BigLess(x, y) THEN BigSub(y, x) ELSE BigSub(x, y)

\* r is within half a unit in its last place of the real product a * b
RoundedProduct(r, a, b) ==
    IF a = FZero \/ b = FZero THEN r = FZero
    ELSE r # FZero /\
         LET base == Min(a.e + b.e, r.e - 1)
         IN  BigLeq(BigDist(Scaled(r.m, r.e, base),
                            Scaled(BigMul(a.m, b.m), a.e + b.e, base)),
                    Scaled(Big(1), r.e - 1, base))

\* r is within half a unit in its last place of the real quotient a / b
RoundedQuotient(r, a, b) ==
    IF a = FZero THEN r = FZero
    ELSE r # FZero /\
         LET base == Min(a.e, r.e - 1 + b.e)
         IN  BigLeq(BigDist(Scaled(BigMul(r.m, b.m), r.e + b.e, base),
                            Scaled(a.m, a.e, base)),
                    Scaled(b.m, r.e - 1 + b.e, base))

\* r is within half a unit in its last place of the real sum a + b
RoundedSum(r, a, b) ==
    IF a = FZero /\ b = FZero THEN r = FZero
    ELSE IF a = FZero THEN r = b
    ELSE IF b = FZero THEN r = a
    ELSE LET base == Min(Min(a.e, b.e), r.e - 1)
         IN  BigLeq(BigDist(Scaled(r.m, r.e, base),
                            BigAdd(Scaled(a.m, a.e, base), Scaled(b.m, b.e, base))),
                    Scaled(Big(1), r.e - 1, base))

\* a non-negative float of the normal range
IsFloat(x) == x = FZero \/ (BigLeq(Pow2(52), x.m) /\ BigLess(x.m, Pow2(53)))

\* |x - y| <= 2^-50 * x
Close(x, y) ==
    IF x = FZero \/ y = FZero THEN x = y
    ELSE LET base == Min(x.e, y.e) - 50
         IN  BigLeq(Scaled(BigDist(Scaled(x.m, x.e, base + 50), Scaled(y.m, y.e, base + 50)),
                           50, 0),
                    Scaled(x.m, x.e, base + 50))

\* the call is linear with the factors of the mode's row
LinearCall(c) ==
    LET m == ModeFloats(c.mode_key)
    IN  /\ RoundedQuotient(c.ret[1], c.distance_km, m.speed_kph)
        /\ RoundedProduct(c.ret[2], m.emission_kg_per_km, c.distance_km)
        /\ \E k \in {FAdd(m.cost_trans, m.cost_labour)} :
              /\ RoundedSum(k, m.cost_trans, m.cost_labour)
              /\ RoundedProduct(c.ret[3], k, c.distance_km)
        /\ \A j \in 1..3 : IsFloat(c.ret[j])
        /\ c.distance_km = FZero => c.ret = <<FZero, FZero, FZero>>

AllCalled == Len(impact) = 3

\* C8 as stated: the impact of d1 + d2 equals the impact of d1 plus the impact
\* of d2 in each component
C8_Additive ==
    (pc = "impact" /\ AllCalled) =>
        \A j \in 1..3 : impact[3].ret[j] = FAdd(impact[1].ret[j], impact[2].ret[j])

\* C8, amended: impact_for_leg(d, mode) is time = d / speed_kph,
\* CO2 = emission_kg_per_km * d and cost = (cost_trans + cost_labour) * d with
\* the factors of the mode's MODES row, each operation rounded to the nearest
\* float; distance 0 gives (0, 0, 0), the three results are non-negative floats,
\* the result is a function of the distance and the mode alone, and the impact
\* of d1 + d2 equals the impact of d1 plus the impact of d2 up to rounding: the
\* two differ by at most 2^-50 of their size in each component.
C8_Linear ==
    pc = "impact" =>
        /\ \A i \in DOMAIN impact :
              /\ impact[i].mode_key = args.mode_key
              /\ impact[i].distance_km = ImpactInputs[i]
              /\ LinearCall(impact[i])
        /\ AllCalled =>
              \A j \in 1..3 :
                 Close(impact[3].ret[j], FAdd(impact[1].ret[j], impact[2].ret[j]))

\* 3 km and 4 km by truck: the three calls were made, and the time of 7 km is
\* not the sum of the times of 3 km and 4 km
C8_Witness ==
    /\ pc = "impact"
    /\ AllCalled
    /\ args.mode_key = "truck"
    /\ args.d1 = Literal(3000, 3) /\ args.d2 = Literal(4000, 3)
    /\ impact[3].ret[1] # FAdd(impact[1].ret[1], impact[2].ret[1])

-----------------------------------------------------------------------------
(* Specification of the builders of routes: one of eval_candidate_direct,  *)
(* eval_candidate_via_hub and make_baseline applied to bounded arguments.  *)

\* baseline chains as typed: empty, known modes, an unknown mode, modes the city
\* does not allow, and chains long enough to have transfers
Chains ==
    {<<>>, <<"truck">>, <<"truck", "cargo_bike">>, <<"zeppelin", "autonomous_robot">>,
     <<"truck", "cargo_tram", "cargo_bike">>, <<"small_van", "boat", "cargo_bus", "elcv">>}

InitTotals ==
    /\ pc = "ready"
    /\ city_name \in {CITY_LIST[1], CITY_LIST[7]}
    /\ engine \in Engines
    /\ \E n \in 0..MaxHubs :
          /\ micro_hubs = [h \in 1..n |-> Node(h)]
          /\ \E d \in DirectDists, l \in HubLayouts(n, None), o \in ServiceStates :
                /\ engine = HAVERSINE_ONLY => o = AllServed
                /\ world = [direct |-> d, legs |-> l, osrm |-> o]
    /\ args = [op |-> None]
    /\ results = None
    /\ best_combo = 0
    /\ baseline = None
    /\ candidate = None
    /\ route = Idle
    /\ osrm_cache = NoCache
    /\ impact = Idle
    /\ cache_file = <<>>
    /\ geo = Idle
    /\ geocode_memo = NoCache
    /\ CITY_GRAPH = <<>>
    /\ CITY_NAMES = <<>>

\* the memo after route_with_engine(a, b, mode_key, MODES, engine)
MemoisedLeg(a, b, mode_key) ==
    Memoised({<<a, b>>}, {MODES[mode_key].osrm_profile} \ {NoProfile}, engine)

EvalCandidateDirect ==
    /\ pc = "ready"
    /\ \E mode_key \in Range(Allowed(city_name)) :
          /\ candidate' = eval_candidate_direct(Origin, Dest, mode_key, engine)
          /\ osrm_cache' = MemoisedLeg(Origin, Dest, mode_key)
          /\ args' = [op |-> "eval_candidate_direct", mode_key |-> mode_key]
    /\ pc' = "built"
    /\ UNCHANGED <<CITY_GRAPH, CITY_NAMES, city_name, engine, micro_hubs, world, results, best_combo, baseline,
                   route, impact, cache_file, geo,
                   geocode_memo>>

EvalCandidateViaHub ==
    /\ pc = "ready"
    /\ \E hub \in Range(micro_hubs), m1, m2 \in Range(Allowed(city_name)) :
          /\ candidate' = eval_candidate_via_hub(Origin, hub, Dest, m1, m2, engine)
          /\ osrm_cache' = MemoisedLeg(Origin, HubPoint(hub), m1)
                              @@ MemoisedLeg(HubPoint(hub), Dest, m2)
          /\ args' = [op |-> "eval_candidate_via_hub", hub |-> hub, m1 |-> m1, m2 |-> m2]
    /\ pc' = "built"
    /\ UNCHANGED <<CITY_GRAPH, CITY_NAMES, city_name, engine, micro_hubs, world, results, best_combo, baseline,
                   route, impact, cache_file, geo,
                   geocode_memo>>

\* the memo after the two routed legs of a baseline via the hub, or its one leg
BaselineMemo(chain, via_hub, hub) ==
    IF ~via_hub THEN MemoisedLeg(Origin, Dest, chain[1])
    ELSE IF hub = None THEN osrm_cache
    ELSE MemoisedLeg(Origin, HubPoint(hub), chain[1])
            @@ MemoisedLeg(HubPoint(hub), Dest, chain[Len(chain)])

MakeBaseline ==
    /\ pc = "ready"
    /\ \E chain \in Chains, via_hub \in BOOLEAN,
          hub_override \in {None} \cup Range(micro_hubs) :
          /\ baseline' = make_baseline(Origin, Dest, chain, via_hub, hub_override)
          /\ osrm_cache' = BaselineMemo(BaselineChain(chain), via_hub,
                                        ChosenHub(Dest, via_hub, hub_override))
          /\ args' = [op |-> "make_baseline", chain |-> chain, via_hub |-> via_hub,
                       hub_override |-> hub_override]
    /\ pc' = "built"
    /\ UNCHANGED <<CITY_GRAPH, CITY_NAMES, city_name, engine, micro_hubs, world, results, best_combo, candidate,
                   route, impact, cache_file, geo,
                   geocode_memo>>

NextTotals == EvalCandidateDirect \/ EvalCandidateViaHub \/ MakeBaseline

SpecTotals == InitTotals /\ [][NextTotals]_vars

CandidateBuilt == pc = "built" /\ candidate # None
BaselineBuilt == pc = "built" /\ baseline # None /\ baseline # AttributeError

StoredSums(segs) ==
    [distance_km |-> SumInt(segs, "distance_km", Len(segs)),
     time_h      |-> SumInt(segs, "time_h", Len(segs)),
     co2_kg      |-> SumBig(segs, "co2_kg", Len(segs)),
     cost        |-> SumBig(segs, "cost", Len(segs))]

\* the unrounded distances of the two legs of the via-hub candidate built
LegSum ==
    route_with_engine(Origin, HubPoint(args.hub), args.m1, engine)[1]
       + route_with_engine(HubPoint(args.hub), Dest, args.m2, engine)[1]

\* 0.001 km
MILLI_KM == UNITS_PER_KM \div 1000

\* C9 as stated: each of the four totals of a candidate and of the baseline
\* equals the sum of that value over the stored segments
C9_TotalsAreSums ==
    /\ CandidateBuilt => candidate.totals = StoredSums(candidate.segs)
    /\ BaselineBuilt => baseline[2] = StoredSums(baseline[1])

\* C9, amended: the totals of time, CO2 and cost of every candidate and of the
\* baseline equal the sums over the stored segments, and so does the total
\* distance of a direct candidate and of the baseline; the total distance of a
\* via-hub candidate is the sum of the unrounded leg distances rounded to 3
\* decimals, which is within 0.001 km of the sum of the stored distances.
C9_Totals ==
    /\ CandidateBuilt =>
          /\ \A f \in {"time_h", "co2_kg", "cost"} :
                candidate.totals[f] = StoredSums(candidate.segs)[f]
          /\ args.op = "eval_candidate_direct" =>
                candidate.totals.distance_km = StoredSums(candidate.segs).distance_km
          /\ args.op = "eval_candidate_via_hub" =>
                /\ candidate.totals.distance_km = Round3(LegSum)
                /\ candidate.totals.distance_km
                      - StoredSums(candidate.segs).distance_km \in {0 - MILLI_KM, 0, MILLI_KM}
    /\ BaselineBuilt => baseline[2] = StoredSums(baseline[1])

\* a via-hub candidate whose total distance is not the sum of the two stored
\* leg distances
C9_Witness ==
    /\ CandidateBuilt
    /\ args.op = "eval_candidate_via_hub"
    /\ Len(candidate.segs) = 2
    /\ candidate.totals.distance_km # StoredSums(candidate.segs).distance_km

\* a baseline via a hub with transfer segments between its two legs
C9_WitnessBaseline ==
    /\ BaselineBuilt
    /\ args.via_hub
    /\ Len(baseline[1]) > 2
    /\ baseline[2].distance_km > 0

-----------------------------------------------------------------------------
(* Specification of the geocoder: geocode_address called with addresses    *)
(* that differ in surrounding whitespace, a service that fails or answers, *)
(* a cache file that may not be writable and may be cleared by hand.       *)

Addresses ==
    {<<>>, <<" ">>, <<"a">>, <<" ", "a", " ">>, <<"a", " ", "b">>}

\* answers of the service to the requests of one call, in turn
ServiceScripts ==
    {<<Found(1, 2), Empty, Empty, Empty>>,
     <<Empty, Empty, Empty, Empty>>,
     <<Exception, TooManyRequests, Found(3, 4), Empty>>,
     <<HttpError, Malformed, Exception, TooManyRequests>>}

\* cache files the app starts with: none, or one deployed with entries
DeployedFiles ==
    {MissingFile,
     [exists |-> TRUE, data |-> (<<"a">> :> <<1, 2>>)],
     [exists |-> TRUE, data |-> (<<"a">> :> None) @@ (<<"a", " ", "b">> :> <<3, 4>>)]}

InitGeocode ==
    /\ pc = "geocoding"
    /\ city_name = CITY_LIST[1]
    /\ engine = OSRM_ENGINE
    /\ micro_hubs = <<>>
    /\ world = [direct |-> 0, legs |-> <<>>, osrm |-> AllServed]
    /\ args = [op |-> None]
    /\ results = None
    /\ best_combo = 0
    /\ baseline = None
    /\ candidate = None
    /\ route = Idle
    /\ osrm_cache = NoCache
    /\ impact = Idle
    /\ cache_file \in DeployedFiles
    /\ geo = Idle
    /\ geocode_memo = NoCache
    /\ CITY_GRAPH = <<>>
    /\ CITY_NAMES = <<>>

\* one call geocode_address(addr); geo records the call, the cache file it
\* found and left, whether the memo answered, the responses the call received,
\* whether its write of the file failed, and what the call did
GeocodeAddress ==
    /\ pc = "geocoding"
    /\ \E addr \in Addresses, script \in ServiceScripts, write_ok \in BOOLEAN :
          LET effect == geocode_address(addr, cache_file, script)
          IN  /\ geo' = [op |-> "geocode_address", addr |-> addr, before |-> cache_file,
                         memo_hit |-> GeocodeMemoised(addr), ret |-> effect.ret,
                         requests |-> effect.requests, wrote |-> effect.wrote,
                         answers |-> SubSeq(script, 1, effect.requests),
                         slept |-> effect.slept,
                         write_failed |-> effect.wrote /\ ~write_ok,
                         after |-> FileAfter(cache_file, effect, write_ok)]
              /\ cache_file' = FileAfter(cache_file, effect, write_ok)
              /\ geocode_memo' = IF GeocodeMemoised(addr) THEN geocode_memo
                                 ELSE (addr :> effect.ret) @@ geocode_memo
    /\ UNCHANGED <<CITY_GRAPH, CITY_NAMES, pc, city_name, engine, micro_hubs, world, args, results, best_combo,
                   baseline, candidate, route, osrm_cache, impact>>

\* the "manual cache clear" the code counts on: the cache file is deleted
ManualCacheClear ==
    /\ pc = "geocoding"
    /\ cache_file.exists
    /\ cache_file' = MissingFile
    /\ UNCHANGED <<CITY_GRAPH, CITY_NAMES, pc, city_name, engine, micro_hubs, world, args, results, best_combo,
                   baseline, candidate, route, osrm_cache, impact, geo, geocode_memo>>

\* the app is restarted: what st.cache_data holds in memory is gone with the
\* process, the cache file stays
AppRestart ==
    /\ pc = "geocoding"
    /\ geocode_memo # NoCache
    /\ geocode_memo' = NoCache
    /\ geo' = Idle
    /\ UNCHANGED <<CITY_GRAPH, CITY_NAMES, pc, city_name, engine, micro_hubs, world, args, results, best_combo,
                   baseline, candidate, route, osrm_cache, impact, cache_file>>

NextGeocode == GeocodeAddress \/ ManualCacheClear \/ AppRestart

SpecGeocode == InitGeocode /\ [][NextGeocode]_vars

Geocoded == geo # Idle
GeoKey == Strip(geo.addr)
KeyCached == GeoKey # <<>> /\ GeoKey \in DOMAIN LoadCache(geo.before)
Blank == GeoKey = <<>>

\* the call returned the value the file held, sent nothing and wrote nothing
AnsweredFromFile ==
    /\ geo.ret = LoadCache(geo.before)[GeoKey]
    /\ geo.requests = 0
    /\ ~geo.wrote
    /\ cache_file.exists => LoadCache(cache_file) = LoadCache(geo.before)

\* C10 as stated: whenever addr.strip() is a key of the cache file,
\* geocode_address(addr) returns the cached value, sends no request and does
\* not write the file; a blank address returns None with no request and no write
C10_CacheHit ==
    Geocoded =>
        /\ KeyCached => AnsweredFromFile
        /\ Blank => geo.ret = None /\ geo.requests = 0 /\ ~geo.wrote

\* C10, amended: a call that st.cache_data does not answer from its memo of an
\* earlier call with the same addr string looks addr.strip() up in the cache
\* file and, if it is a key, returns the cached value (the pair, or None for
\* null), sends no request and does not write the file, so addresses that
\* differ only in surrounding whitespace hit the same entry; a call answered
\* from the memo returns what the earlier call returned, whatever the file
\* holds by now, also without request or write.  A blank address returns None
\* with no request and no write.
C10_CacheHitUnlessMemoised ==
    Geocoded =>
        /\ (KeyCached /\ ~geo.memo_hit) => AnsweredFromFile
        /\ geo.memo_hit =>
              /\ geo.ret = geocode_memo[geo.addr]
              /\ geo.requests = 0
              /\ ~geo.wrote
        /\ Blank => geo.ret = None /\ geo.requests = 0 /\ ~geo.wrote

\* an address with surrounding whitespace was looked up in a file that holds
\* its stripped form, and the cached pair came back
C10_Witness ==
    /\ Geocoded
    /\ ~geo.memo_hit
    /\ geo.addr # GeoKey
    /\ KeyCached
    /\ geo.ret # None
    /\ geo.ret = LoadCache(geo.before)[GeoKey]

\* the memo answered with something else than the cache file held
C10_WitnessMemo ==
    /\ Geocoded
    /\ geo.memo_hit
    /\ KeyCached
    /\ geo.ret # LoadCache(geo.before)[GeoKey]

-----------------------------------------------------------------------------
(* The retry loop and what the cache file remembers.                       *)

\* the call reached the retry loop: neither the memo nor the cache file answered
CacheMiss == Geocoded /\ ~geo.memo_hit /\ ~Blank /\ ~KeyCached

LastAnswer == geo.answers[Len(geo.answers)]
FailedAttempts == Cardinality({k \in 1..Len(geo.answers) : geo.answers[k] \in Transient})

\* C11: on a cache miss geocode_address sends between 1 and 4 requests and
\* returns a value, never an exception: every response before the last one it
\* received was a failure (request error, 429, other non-OK status, malformed
\* body) and each failure was followed by a wait; an OK response ends the
\* call at once with its first coordinate pair, or None for an empty list; a
\* call whose last response was a failure made all 4 attempts and returns None
C11_Retry ==
    CacheMiss =>
        /\ geo.requests \in 1..4
        /\ Len(geo.answers) = geo.requests
        /\ \A k \in 1..(geo.requests - 1) : geo.answers[k] \in Transient
        /\ LastAnswer \in Transient => geo.requests = 4 /\ geo.ret = None
        /\ LastAnswer = Empty => geo.ret = None
        /\ LastAnswer[1] = "found" => geo.ret = <<LastAnswer[2], LastAnswer[3]>>
        /\ geo.slept >= FailedAttempts
        /\ (geo.slept = 0) = (FailedAttempts = 0)
        /\ geo.ret = None \/ Len(geo.ret) = 2

\* two attempts failed and the third was answered with coordinates
C11_Witness ==
    /\ CacheMiss
    /\ geo.requests = 3
    /\ FailedAttempts = 2
    /\ geo.ret = <<3, 4>>

\* all four attempts failed
C11_WitnessExhausted ==
    /\ CacheMiss
    /\ geo.requests = 4
    /\ FailedAttempts = 4
    /\ geo.ret = None

\* geocode_address keeps the entries the cache file had
EntriesKept ==
    \A k \in DOMAIN LoadCache(geo.before) :
        /\ k \in DOMAIN LoadCache(geo.after)
        /\ LoadCache(geo.after)[k] = LoadCache(geo.before)[k]

\* the cache file the call left holds what the call returned
Remembered ==
    /\ GeoKey \in DOMAIN LoadCache(geo.after)
    /\ LoadCache(geo.after)[GeoKey] = geo.ret

C12_WitnessMemo ==
    /\ Geocoded
    /\ geo.memo_hit
    /\ ~Blank
    /\ GeoKey \notin DOMAIN LoadCache(geo.after)

-----------------------------------------------------------------------------
(* ESG dashboard: per-mode distance aggregates and the five secondary      *)
(* metrics, in binary64 as the code computes them.                         *)

\* MODE_ESG, the factors in hundredths
MODE_ESG ==
    [truck |-> [fuel_l_per_km |-> 30, electricity_kwh_per_km |-> 0, road_space_eq |-> 300,
                noise_idx |-> 84, safety_risk |-> 80],
     small_van |-> [fuel_l_per_km |-> 12, electricity_kwh_per_km |-> 0, road_space_eq |-> 160,
                    noise_idx |-> 68, safety_risk |-> 60],
     elcv |-> [fuel_l_per_km |-> 0, electricity_kwh_per_km |-> 20, road_space_eq |-> 160,
               noise_idx |-> 68, safety_risk |-> 50],
     cargo_bike |-> [fuel_l_per_km |-> 0, electricity_kwh_per_km |-> 5, road_space_eq |-> 40,
                     noise_idx |-> 40, safety_risk |-> 30],
     e_scooter_trailer |-> [fuel_l_per_km |-> 0, electricity_kwh_per_km |-> 3,
                            road_space_eq |-> 20, noise_idx |-> 24, safety_risk |-> 25],
     autonomous_robot |-> [fuel_l_per_km |-> 0, electricity_kwh_per_km |-> 2,
                           road_space_eq |-> 10, noise_idx |-> 24, safety_risk |-> 20],
     cargo_tram |-> [fuel_l_per_km |-> 0, electricity_kwh_per_km |-> 40, road_space_eq |-> 0,
                     noise_idx |-> 72, safety_risk |-> 15],
     cargo_bus |-> [fuel_l_per_km |-> 8, electricity_kwh_per_km |-> 0, road_space_eq |-> 180,
                    noise_idx |-> 88, safety_risk |-> 50],
     boat |-> [fuel_l_per_km |-> 5, electricity_kwh_per_km |-> 0, road_space_eq |-> 0,
               noise_idx |-> 56, safety_risk |-> 30]]

\* the default of MODE_ESG.get(m, {...}), in hundredths
ESG_DEFAULT ==
    [fuel_l_per_km |-> 0, electricity_kwh_per_km |-> 0, road_space_eq |-> 100,
     noise_idx |-> 50, safety_risk |-> 50]

EsgFloats(row) ==
    [fuel_l_per_km          |-> Literal(row.fuel_l_per_km, 2),
     electricity_kwh_per_km |-> Literal(row.electricity_kwh_per_km, 2),
     road_space_eq          |-> Literal(row.road_space_eq, 2),
     noise_idx              |-> Literal(row.noise_idx, 2),
     safety_risk            |-> Literal(row.safety_risk, 2)]

ModeEsgTable == [m \in DOMAIN MODE_ESG |-> EsgFloats(MODE_ESG[m])] @@ <<>>
EsgDefaultFloats == EsgFloats(ESG_DEFAULT)

\* MODE_ESG.get(m, {...})
ModeEsg(m) == IF m \in DOMAIN MODE_ESG THEN ModeEsgTable[m] ELSE EsgDefaultFloats

\* agg[s["mode"]] = s["distance_km"]: the last distance of a mode, not the sum
AggPutLast(agg, s) ==
    IF \E i \in DOMAIN agg : agg[i].mode = s.mode
    THEN List([i \in DOMAIN agg |->
                  IF agg[i].mode = s.mode THEN [mode |-> s.mode, km |-> s.distance_km]
                  ELSE agg[i]])
    ELSE Append(agg, [mode |-> s.mode, km |-> s.distance_km])

\* agg[s["mode"]] = agg.get(s["mode"], 0.0) + s["distance_km"]; the dict keeps
\* its keys in the order of their first insertion
AggPut(agg, s) ==
    IF \E i \in DOMAIN agg : agg[i].mode = s.mode
    THEN List([i \in DOMAIN agg |->
                  IF agg[i].mode = s.mode
                  THEN [mode |-> s.mode, km |-> FAdd(agg[i].km, s.distance_km)]
                  ELSE agg[i]])
    ELSE Append(agg, [mode |-> s.mode, km |-> FAdd(FZero, s.distance_km)])

RECURSIVE AggregateFrom(_, _, _)
AggregateFrom(segments, i, agg) ==
    IF i > Len(segments) THEN agg
    ELSE AggregateFrom(segments, i + 1, AggPut(agg, segments[i]))

\* the dict of aggregate_mode_km as the list of its items
aggregate_mode_km(segments) == AggregateFrom(segments, 1, <<>>)

EsgZero ==
    [fuel_l |-> FZero, kwh |-> FZero, road_space_eq_km |-> FZero,
     noise_index_km |-> FZero, safety_risk_km |-> FZero]

\* one round of the loop over km_by_mode.items()
EsgAdd(acc, f, km) ==
    [fuel_l           |-> FAdd(acc.fuel_l, FMul(f.fuel_l_per_km, km)),
     kwh              |-> FAdd(acc.kwh, FMul(f.electricity_kwh_per_km, km)),
     road_space_eq_km |-> FAdd(acc.road_space_eq_km, FMul(f.road_space_eq, km)),
     noise_index_km   |-> FAdd(acc.noise_index_km, FMul(f.noise_idx, km)),
     safety_risk_km   |-> FAdd(acc.safety_risk_km, FMul(f.safety_risk, km))]

RECURSIVE EsgFrom(_, _, _)
EsgFrom(km_by_mode, i, acc) ==
    IF i > Len(km_by_mode) THEN acc
    ELSE EsgFrom(km_by_mode, i + 1,
                 EsgAdd(acc, ModeEsg(km_by_mode[i].mode), km_by_mode[i].km))

esg_metrics_for_segments(segments) == EsgFrom(aggregate_mode_km(segments), 1, EsgZero)

-----------------------------------------------------------------------------
(* Specification of the ESG metrics: esg_metrics_for_segments applied to a *)
(* segment list, to the list in reverse order, and to the list with its    *)
(* first two segments joined into one when they have the same mode.        *)

\* segments of a list
MaxSegments == 3
EsgModes == {"truck", "cargo_bike"}
\* segment distances in metres, stored as round(d, 3) km
EsgDists == {100, 200, 300}

EsgSegments == [mode : EsgModes, metres : EsgDists]
EsgLists == UNION {[1..n -> EsgSegments] : n \in 1..MaxSegments}

InitEsg ==
    /\ pc = "esg"
    /\ city_name = CITY_LIST[1]
    /\ engine = OSRM_ENGINE
    /\ micro_hubs = <<>>
    /\ world = [direct |-> 0, legs |-> <<>>, osrm |-> AllServed]
    /\ \E segs \in EsgLists : args = [segments |-> segs]
    /\ results = None
    /\ best_combo = 0
    /\ baseline = None
    /\ candidate = None
    /\ route = Idle
    /\ osrm_cache = NoCache
    /\ impact = <<>>
    /\ cache_file = <<>>
    /\ geo = Idle
    /\ geocode_memo = NoCache
    /\ CITY_GRAPH = <<>>
    /\ CITY_NAMES = <<>>

Reversed(s) == [i \in 1..Len(s) |-> s[Len(s) + 1 - i]]

Joinable(s) == Len(s) >= 2 /\ s[1].mode = s[2].mode

\* the list with its first two segments joined into one
Joined(s) ==
    <<[mode |-> s[1].mode, metres |-> s[1].metres + s[2].metres]>> \o SubSeq(s, 3, Len(s))

\* the floats of the distances that occur, metres / 1000
EsgKmTable ==
    [k \in EsgDists \cup {a + b : a \in EsgDists, b \in EsgDists} |-> Literal(k, 3)] @@ <<>>

\* the segment dicts: distance_km is the float of round(d, 3)
SegmentDicts(s) ==
    List([i \in 1..Len(s) |-> [mode |-> s[i].mode, distance_km |-> EsgKmTable[s[i].metres]]])

\* the lists the metrics are computed for, in turn
EsgInputs ==
    <<args.segments, Reversed(args.segments)>>
        \o (IF Joinable(args.segments) THEN <<Joined(args.segments)>> ELSE <<>>)

\* one call esg_metrics_for_segments(segments); impact lists the calls made so far
EsgMetricsForSegments ==
    /\ pc = "esg"
    /\ Len(impact) < Len(EsgInputs)
    /\ LET segs == EsgInputs[Len(impact) + 1]
       IN  impact' = Append(impact, [segments |-> segs,
                                     km_by_mode |-> aggregate_mode_km(SegmentDicts(segs)),
                                     ret |-> esg_metrics_for_segments(SegmentDicts(segs))])
    /\ UNCHANGED <<CITY_GRAPH, CITY_NAMES, pc, city_name, engine, micro_hubs, world, args, results, best_combo,
                   baseline, route, osrm_cache, cache_file, geo, candidate,
                   geocode_memo>>

NextEsg == EsgMetricsForSegments

SpecEsg == InitEsg /\ [][NextEsg]_vars


EsgMetrics ==
    [fuel_l |-> "fuel_l_per_km", kwh |-> "electricity_kwh_per_km",
     road_space_eq_km |-> "road_space_eq", noise_index_km |-> "noise_idx",
     safety_risk_km |-> "safety_risk"]

\* the real value of a float, and of a product of two floats, in units of 2^-140
Exact(x) == Scaled(x.m, x.e, 0 - 140)
ExactProduct(x, y) == Scaled(BigMul(x.m, y.m), x.e + y.e, 0 - 140)

RECURSIVE ExactSum(_, _)
ExactSum(terms, i) == IF i = 0 THEN BigZero ELSE BigAdd(ExactSum(terms, i - 1), terms[i])

\* the real sum of the distances of the segments with the mode
ExactKm(dicts, mode) ==
    ExactSum([i \in 1..Len(dicts) |->
                 IF dicts[i].mode = mode THEN Exact(dicts[i].distance_km) ELSE BigZero],
             Len(dicts))

\* the real sum over the segments of factor * distance
ExactMetric(dicts, factor) ==
    ExactSum([i \in 1..Len(dicts) |->
                 ExactProduct(ModeEsg(dicts[i].mode)[factor], dicts[i].distance_km)],
             Len(dicts))

\* |x - exact| <= 2^-50 * exact
CloseTo(x, exact) == BigLeq(Scaled(BigDist(Exact(x), exact), 50, 0), exact)

ModesOf(segs) == {segs[i].mode : i \in 1..Len(segs)}

\* the aggregate has one item for each mode that occurs and no other
KeysAreModes(c) ==
    /\ {c.km_by_mode[i].mode : i \in 1..Len(c.km_by_mode)} = ModesOf(c.segments)
    /\ Len(c.km_by_mode) = Cardinality(ModesOf(c.segments))

EsgCalled == pc = "esg" /\ Len(impact) = Len(EsgInputs)

C13_WitnessSplit ==
    /\ EsgCalled
    /\ Len(impact) = 3
    /\ impact[3].ret # impact[1].ret

-----------------------------------------------------------------------------
(* Percentage deltas of the dashboard.  The metrics and totals compared are *)
(* non-negative floats; a result is a sign, a magnitude and whether it is   *)
(* infinite.                                                                *)

\* a - b for floats a >= b
FSub(a, b) ==
    IF b = FZero THEN a
    ELSE F64(BigSub(BigMul(a.m, Pow2(a.e - Min(a.e, b.e))),
                    BigMul(b.m, Pow2(b.e - Min(a.e, b.e)))), Min(a.e, b.e))

HUNDRED == FromInt(100)

Finite(neg, mag) == [inf |-> FALSE, neg |-> neg /\ mag # FZero, mag |-> mag]
PlusInfinity == [inf |-> TRUE, neg |-> FALSE, mag |-> FZero]

\* (a - b) / a * 100.0: the change of the baseline against the scenario
delta_percent_reversed(a, b) ==
    IF a = FZero THEN IF b # FZero THEN PlusInfinity ELSE Finite(FALSE, FZero)
    ELSE IF FLess(a, b) THEN Finite(TRUE, FMul(FDiv(FSub(b, a), a), HUNDRED))
         ELSE Finite(FALSE, FMul(FDiv(FSub(a, b), a), HUNDRED))

\* delta_percent(a, b) for a, b >= 0; b - a is computed on the magnitudes
delta_percent(a, b) ==
    IF a = FZero THEN IF b # FZero THEN PlusInfinity ELSE Finite(FALSE, FZero)
    ELSE IF FLess(b, a) THEN Finite(TRUE, FMul(FDiv(FSub(a, b), a), HUNDRED))
         ELSE Finite(FALSE, FMul(FDiv(FSub(b, a), a), HUNDRED))

-----------------------------------------------------------------------------
(* Specification of the percentage delta: delta_percent applied to a       *)
(* baseline value and a scenario value.                                    *)

\* values of metrics and totals: 0, sums of distances, products with factors
DeltaValues ==
    {FZero, Literal(1, 1), Literal(3, 1), FAdd(Literal(1, 1), Literal(2, 1)),
     Literal(6, 1), FMul(Literal(30, 2), Literal(6, 1)), Literal(18, 2),
     FromInt(7), Literal(1234567, 3)}

InitDelta ==
    /\ pc = "delta"
    /\ city_name = CITY_LIST[1]
    /\ engine = OSRM_ENGINE
    /\ micro_hubs = <<>>
    /\ world = [direct |-> 0, legs |-> <<>>, osrm |-> AllServed]
    /\ \E a \in DeltaValues, b \in DeltaValues : args = [a |-> a, b |-> b]
    /\ results = None
    /\ best_combo = 0
    /\ baseline = None
    /\ candidate = None
    /\ route = Idle
    /\ osrm_cache = NoCache
    /\ impact = Idle
    /\ cache_file = <<>>
    /\ geo = Idle
    /\ geocode_memo = NoCache
    /\ CITY_GRAPH = <<>>
    /\ CITY_NAMES = <<>>

\* one call delta_percent(a, b), as render_esg_dashboard makes it
DeltaPercent ==
    /\ pc = "delta"
    /\ impact = Idle
    /\ impact' = [op |-> "delta_percent", a |-> args.a, b |-> args.b,
                  ret |-> delta_percent(args.a, args.b)]
    /\ UNCHANGED <<CITY_GRAPH, CITY_NAMES, pc, city_name, engine, micro_hubs, world, args, results, best_combo,
                   baseline, route, osrm_cache, cache_file, geo, candidate,
                   geocode_memo>>

NextDelta == DeltaPercent

SpecDelta == InitDelta /\ [][NextDelta]_vars

DeltaCalled == pc = "delta" /\ impact # Idle

\* the real value of a float, and of a product of two floats, in units of 2^-180
Fine(x) == Scaled(x.m, x.e, 0 - 180)
FineProduct(x, y) == Scaled(BigMul(x.m, y.m), x.e + y.e, 0 - 180)

\* mag * a is within 2^-50 of 100 * |b - a|: mag is (b - a) / a * 100 up to rounding
IsPercentage(mag, a, b) ==
    LET change == BigMul(Big(100), BigDist(Fine(a), Fine(b)))
    IN  BigLeq(Scaled(BigDist(FineProduct(mag, a), change), 50, 0), change)

\* C14: delta_percent(a, b) for a # 0 is the finite value (b - a) / a * 100
\* (rounded), negative exactly when b < a, zero exactly when b = a, positive
\* exactly when b > a; for a = 0 it is 0 when b = 0 and +infinity when b # 0,
\* so no division by a = 0 takes place
C14_DeltaPercent ==
    DeltaCalled =>
        /\ impact.a # FZero =>
              /\ ~impact.ret.inf
              /\ impact.ret.neg = FLess(impact.b, impact.a)
              /\ (impact.ret.mag = FZero) = (impact.b = impact.a)
              /\ (~impact.ret.neg /\ impact.ret.mag # FZero) = FLess(impact.a, impact.b)
              /\ IsPercentage(impact.ret.mag, impact.a, impact.b)
        /\ (impact.a = FZero /\ impact.b = FZero) =>
              ~impact.ret.inf /\ impact.ret.mag = FZero /\ ~impact.ret.neg
        /\ (impact.a = FZero /\ impact.b # FZero) => impact.ret = PlusInfinity

\* the scenario is below the baseline by one unit in the last place
C14_Witness ==
    /\ DeltaCalled
    /\ impact.a = FAdd(Literal(1, 1), Literal(2, 1))
    /\ impact.b = Literal(3, 1)
    /\ impact.ret.neg
    /\ impact.ret.mag # FZero

\* a zero baseline and a scenario that is not zero
C14_WitnessInfinite ==
    /\ DeltaCalled
    /\ impact.a = FZero
    /\ impact.b # FZero
    /\ impact.ret.inf

-----------------------------------------------------------------------------
(* tools/pregeocode.py: one run fills the sample cache file with the       *)
(* addresses of CITIES and MICRO_HUBS.  A failed write leaves the file as  *)
(* it was.                                                                 *)

\* the sample file: absent, unreadable, or a JSON object
SampleFile(exists, valid, data) == [exists |-> exists, valid |-> valid, data |-> data]

\* lines 76-82: cache = json.loads(...) if the file is there and parses, else {}
LoadSample(file) == IF file.exists /\ file.valid THEN file.data ELSE <<>>

\* lines 84-92: the addresses of the CITIES rows, then of the MICRO_HUBS rows
TaskList(cities, micros) ==
    List([i \in 1..Len(cities) |-> cities[i][3]]) \o List([i \in 1..Len(micros) |-> micros[i][4]])

\* geocode(addr, email): the first coordinate pair of an OK response, else None
geocode(addr, answers) ==
    IF answers[addr][1] = "found" THEN <<answers[addr][2], answers[addr][3]>> ELSE None

\* the task loop without the test "addr in cache"
RECURSIVE RunTasksAlways(_, _, _, _, _)
RunTasksAlways(tasks, i, cache, requested, answers) ==
    IF i > Len(tasks) THEN [cache |-> cache, requested |-> requested]
    ELSE RunTasksAlways(tasks, i + 1, Put(cache, tasks[i], geocode(tasks[i], answers)),
                        Append(requested, tasks[i]), answers)

\* lines 95-103: the task loop from task i on
RECURSIVE RunTasks(_, _, _, _, _)
RunTasks(tasks, i, cache, requested, answers) ==
    IF i > Len(tasks) THEN [cache |-> cache, requested |-> requested]
    ELSE IF tasks[i] \in DOMAIN cache
         THEN RunTasks(tasks, i + 1, cache, requested, answers)
         ELSE RunTasks(tasks, i + 1, Put(cache, tasks[i], geocode(tasks[i], answers)),
                       Append(requested, tasks[i]), answers)

\* main(): the requests it sends and the sample file it leaves
pregeocode_main(email, file, cities, micros, answers, write_ok) ==
    IF ~email \/ (cities = <<>> /\ micros = <<>>)
    THEN [requested |-> <<>>, wrote |-> FALSE, after |-> file]
    ELSE LET run == RunTasks(TaskList(cities, micros), 1, LoadSample(file), <<>>, answers)
         IN  [requested |-> run.requested, wrote |-> write_ok,
              after |-> IF write_ok THEN SampleFile(TRUE, TRUE, run.cache) ELSE file]

-----------------------------------------------------------------------------
(* Specification of the pre-geocoding tool: runs of main() on a sample     *)
(* file, with NOMINATIM_EMAIL set or not.                                  *)

\* CITIES and MICRO_HUBS rows of the model: (city, hub_name, hub_addr) and
\* (city, key, name, addr)
ToolCities == {<<>>, <<<<"H", "Central", "hub">>>>}
ToolMicros ==
    {<<>>,
     <<<<"H", "MH1", "One", "one">>, <<"H", "MH2", "Two", "two">>>>,
     <<<<"H", "MH1", "One", "one">>, <<"H", "MH2", "Again", "one">>>>}
ToolAddresses == {"hub", "one", "two"}

\* what the service answers for an address
ToolAnswers == [ToolAddresses -> {Found(1, 2), Empty, Exception}]

SampleFiles ==
    {SampleFile(FALSE, FALSE, <<>>),
     SampleFile(TRUE, FALSE, <<>>),
     SampleFile(TRUE, TRUE, ("one" :> <<5, 6>>) @@ ("old" :> <<7, 8>>)),
     SampleFile(TRUE, TRUE, ("hub" :> None))}

InitPregeocode ==
    /\ pc = "pregeocode"
    /\ city_name = CITY_LIST[1]
    /\ engine = OSRM_ENGINE
    /\ micro_hubs = <<>>
    /\ world = [direct |-> 0, legs |-> <<>>, osrm |-> AllServed]
    /\ \E cities \in ToolCities, micros \in ToolMicros :
          args = [cities |-> cities, micros |-> micros]
    /\ results = None
    /\ best_combo = 0
    /\ baseline = None
    /\ candidate = None
    /\ route = Idle
    /\ osrm_cache = NoCache
    /\ impact = Idle
    /\ cache_file \in SampleFiles
    /\ geo = Idle
    /\ geocode_memo = NoCache
    /\ CITY_GRAPH = <<>>
    /\ CITY_NAMES = <<>>

\* one run of the tool; cache_file is the sample file, geo records the run
PregeocodeMain ==
    /\ pc = "pregeocode"
    /\ \E email \in BOOLEAN, answers \in ToolAnswers, write_ok \in BOOLEAN :
          LET run == pregeocode_main(email, cache_file, args.cities, args.micros,
                                     answers, write_ok)
          IN  /\ geo' = [op |-> "main", email |-> email, before |-> cache_file,
                         requested |-> run.requested, wrote |-> run.wrote,
                         after |-> run.after]
              /\ cache_file' = run.after
    /\ UNCHANGED <<CITY_GRAPH, CITY_NAMES, pc, city_name, engine, micro_hubs, world, args, results, best_combo,
                   baseline, candidate, route, osrm_cache, impact, geocode_memo>>

NextPregeocode == PregeocodeMain

SpecPregeocode == InitPregeocode /\ [][NextPregeocode]_vars

ToolRan == pc = "pregeocode" /\ geo # Idle

TaskAddresses == Range(TaskList(args.cities, args.micros))

\* C15: a run without NOMINATIM_EMAIL sends no request and writes no file; a
\* run requests no address the sample file already holds and no address
\* twice; the file it writes holds every entry of the old file with its old
\* value and every central-hub and micro-hub address, with a coordinate pair
\* or null
C15_Pregeocode ==
    ToolRan =>
        /\ ~geo.email => geo.requested = <<>> /\ ~geo.wrote /\ geo.after = geo.before
        /\ \A i \in DOMAIN geo.requested :
              /\ geo.requested[i] \notin DOMAIN LoadSample(geo.before)
              /\ geo.requested[i] \in TaskAddresses
              /\ \A j \in DOMAIN geo.requested : geo.requested[j] = geo.requested[i] => j = i
        /\ \A k \in DOMAIN LoadSample(geo.before) :
              /\ k \in DOMAIN LoadSample(geo.after)
              /\ LoadSample(geo.after)[k] = LoadSample(geo.before)[k]
        /\ geo.wrote =>
              /\ geo.after.exists /\ geo.after.valid
              /\ \A a \in TaskAddresses :
                    /\ a \in DOMAIN geo.after.data
                    /\ geo.after.data[a] = None \/ Len(geo.after.data[a]) = 2

\* a run with the e-mail set found a sample file that held one of its
\* addresses and a foreign entry, requested the others and wrote the file
C15_Witness ==
    /\ ToolRan
    /\ geo.email
    /\ geo.wrote
    /\ "old" \in DOMAIN LoadSample(geo.before)
    /\ "one" \in DOMAIN LoadSample(geo.before)
    /\ Len(geo.requested) = 2
    /\ geo.after.data["one"] = <<5, 6>>

\* a run without the e-mail
C15_WitnessNoEmail ==
    /\ ToolRan
    /\ ~geo.email
    /\ TaskAddresses # {}

-----------------------------------------------------------------------------
(* Main flow: what the script does when Compute is pressed, with the       *)
(* inputs of the sidebar.  A chain text is held as the list of its parts   *)
(* between the arrows; a selectbox label is Auto or the name of a hub.     *)

AutoLabel == [auto |-> TRUE]
HubLabel(name) == [auto |-> FALSE, name |-> name]

\* ["— Auto (nearest) —"] + [h.name for h in city["micro_hubs"]]
MicroOptions(city_obj) ==
    <<AutoLabel>> \o List([i \in 1..Len(city_obj.micro_hubs) |->
                              HubLabel(city_obj.micro_hubs[i].name)])

RECURSIVE MicroByNameFrom(_, _, _)
MicroByNameFrom(hubs, name, i) ==
    IF i > Len(hubs) THEN None
    ELSE IF hubs[i].name = name THEN hubs[i]
    ELSE MicroByNameFrom(hubs, name, i + 1)

get_micro_by_name(city_obj, name) == MicroByNameFrom(city_obj.micro_hubs, name, 1)

\* the selection of a hub by name is ignored
HubOverrideIgnored(use_hub, selected_micro_label) == None

\* lines 762-765
HubOverride(use_hub, selected_micro_label) ==
    IF use_hub /\ selected_micro_label # None /\ ~selected_micro_label.auto
    THEN get_micro_by_name(CityObj, selected_micro_label.name)
    ELSE None

\* p.strip().lower().replace(" ", "_") of the parts that are typed here
PartNormal ==
    [p \in {"truck", " Truck ", "cargo bike", "CARGO_TRAM", "boat", "elcv", "small_van",
            "autonomous_robot", "cargo  bike", "zeppelin", "", "  "} |->
        CASE p = "truck" -> "truck"
          [] p = " Truck " -> "truck"
          [] p = "cargo bike" -> "cargo_bike"
          [] p = "CARGO_TRAM" -> "cargo_tram"
          [] p = "cargo  bike" -> "cargo__bike"
          [] p = "" -> ""
          [] p = "  " -> ""
          [] OTHER -> p]

\* parse_chain of the text whose parts between arrows are the given ones
parse_chain(parts) ==
    SelectSeq(List([i \in 1..Len(parts) |-> PartNormal[parts[i]]]), LAMBDA p : p # "")

\* line 767: [m for m in parse_chain(baseline_chain_str) if m in MODES]
KnownModes(chain) == SelectSeq(chain, LAMBDA m : m \in ModeKeys)

\* geocode_or_error without the test of the result of geocode_address
geocode_without_error(addr_value, file, script) ==
    IF Strip(addr_value) = <<>>
    THEN [geo |-> None, ok |-> FALSE, message |-> "warning",
          effect |-> NoEffect(None, LoadCache(file))]
    ELSE [geo |-> geocode_address(Strip(addr_value), file, script).ret, ok |-> TRUE,
          message |-> "none", effect |-> geocode_address(Strip(addr_value), file, script)]

\* geocode_or_error(label, addr_value): the pair and the flag it returns, the
\* message it shows, and what its call of geocode_address did
geocode_or_error(addr_value, file, script) ==
    IF Strip(addr_value) = <<>>
    THEN [geo |-> None, ok |-> FALSE, message |-> "warning",
          effect |-> NoEffect(None, LoadCache(file))]
    ELSE LET effect == geocode_address(Strip(addr_value), file, script)
         IN  IF effect.ret = None
             THEN [geo |-> None, ok |-> FALSE, message |-> "error", effect |-> effect]
             ELSE [geo |-> effect.ret, ok |-> TRUE, message |-> "none", effect |-> effect]

-----------------------------------------------------------------------------
(* Specification of one run of the main flow: the start and destination    *)
(* are located, the baseline is built, the candidates are searched and the *)
(* best combined candidate is picked; a run that cannot go on stops.       *)

MainCities == {CITY_LIST[7], CITY_LIST[10]}
StartAddresses == {<<>>, <<"s">>, <<"x">>}
DestinationAddresses == {<<>>, <<" ", "d">>, <<"x">>}
MainChainTexts == {<<"truck">>, <<" Truck ", "cargo bike", "zeppelin">>}

\* the deployed cache file knows the start and the destination
MainCacheFile ==
    [exists |-> TRUE, data |-> (<<"s">> :> <<1, 1>>) @@ (<<"d">> :> <<2, 2>>)]

\* the service finds the unknown address, or fails four times
MainScripts ==
    {<<Found(3, 4), Empty, Empty, Empty>>, <<HttpError, Malformed, Exception, TooManyRequests>>}

\* the checkbox and the selectbox below it
HubChoices(city_obj) ==
    {[use_hub |-> FALSE, selected_micro_label |-> None]}
    \cup {[use_hub |-> TRUE, selected_micro_label |-> l] : l \in Range(MicroOptions(city_obj))}

InitMain ==
    /\ pc = "sidebar"
    /\ city_name \in MainCities
    /\ engine \in Engines
    /\ \E n \in 1..MaxHubs :
          /\ micro_hubs = [h \in 1..n |-> Node(h)]
          /\ \E l \in HubLayouts(n, None), o \in ServiceStates :
                /\ engine = HAVERSINE_ONLY => o = AllServed
                /\ world = [direct |-> 7, legs |-> l, osrm |-> o]
          /\ \E s \in StartAddresses, d \in DestinationAddresses, c \in MainChainTexts,
                h \in HubChoices([micro_hubs |-> [k \in 1..n |-> Node(k)]]) :
                args = [start_address |-> s, destination_address |-> d,
                        baseline_chain_str |-> c, use_hub |-> h.use_hub,
                        selected_micro_label |-> h.selected_micro_label,
                        weight_cost |-> 10]
    /\ results = None
    /\ best_combo = 0
    /\ baseline = None
    /\ candidate = None
    /\ route = Idle
    /\ osrm_cache = NoCache
    /\ impact = Idle
    /\ cache_file = MainCacheFile
    /\ geo = Idle
    /\ geocode_memo = NoCache
    /\ CITY_GRAPH = <<>>
    /\ CITY_NAMES = <<>>

\* lines 750-755: the origin is the central hub, or the geocoded start address
LocateStart ==
    /\ pc = "sidebar"
    /\ IF Strip(args.start_address) # <<>>
       THEN \E script \in MainScripts, write_ok \in BOOLEAN :
               LET g == geocode_or_error(args.start_address, cache_file, script)
               IN  /\ geo' = [op |-> "run", origin |-> IF g.ok THEN "start_geo" ELSE "none",
                              start_geo |-> g.geo, dest_geo |-> None,
                              message |-> g.message]
                   /\ pc' = IF g.ok THEN "origin_set" ELSE "stopped"
                   /\ cache_file' = FileAfter(cache_file, g.effect, write_ok)
                   /\ geocode_memo' =
                         IF GeocodeMemoised(Strip(args.start_address)) THEN geocode_memo
                         ELSE (Strip(args.start_address) :> g.effect.ret) @@ geocode_memo
       ELSE /\ geo' = [op |-> "run", origin |-> "central_hub", start_geo |-> None,
                       dest_geo |-> None, message |-> "none"]
            /\ pc' = "origin_set"
            /\ UNCHANGED <<cache_file, geocode_memo>>
    /\ UNCHANGED <<CITY_GRAPH, CITY_NAMES, city_name, engine, micro_hubs, world, args, results, best_combo,
                   baseline, candidate, route, osrm_cache, impact>>

\* lines 757-760
LocateDestination ==
    /\ pc = "origin_set"
    /\ \E script \in MainScripts, write_ok \in BOOLEAN :
          LET g == geocode_or_error(args.destination_address, cache_file, script)
          IN  /\ geo' = [geo EXCEPT !.dest_geo = g.geo, !.message = g.message]
              /\ pc' = IF g.ok THEN "located" ELSE "stopped"
              /\ cache_file' = FileAfter(cache_file, g.effect, write_ok)
              /\ geocode_memo' =
                    IF Strip(args.destination_address) = <<>>
                       \/ GeocodeMemoised(Strip(args.destination_address))
                    THEN geocode_memo
                    ELSE (Strip(args.destination_address) :> g.effect.ret) @@ geocode_memo
    /\ UNCHANGED <<CITY_GRAPH, CITY_NAMES, city_name, engine, micro_hubs, world, args, results, best_combo,
                   baseline, candidate, route, osrm_cache, impact>>

\* lines 762-768: the hub override, the chain, and make_baseline
BaselineFromSidebar ==
    /\ pc = "located"
    /\ LET hub_override == HubOverride(args.use_hub, args.selected_micro_label)
           baseline_chain == KnownModes(parse_chain(args.baseline_chain_str))
       IN  /\ baseline' = make_baseline(Origin, Dest, baseline_chain, args.use_hub,
                                        hub_override)
           /\ osrm_cache' = BaselineMemo(BaselineChain(baseline_chain), args.use_hub,
                                         ChosenHub(Dest, args.use_hub, hub_override))
           /\ pc' = IF args.use_hub /\ ChosenHub(Dest, args.use_hub, hub_override) = None
                    THEN "crashed" ELSE "baseline"
    /\ UNCHANGED <<CITY_GRAPH, CITY_NAMES, city_name, engine, micro_hubs, world, args, results, best_combo,
                   candidate, route, impact, cache_file, geo, geocode_memo>>

\* lines 780-784: the search with the hub of the baseline as fixed hub
SearchFromBaseline ==
    /\ pc = "baseline"
    /\ LET fixed_hub == IF args.use_hub THEN baseline[3] ELSE None
       IN  /\ results' = search_best_routes(city_name, CityObj, Origin, Dest, engine,
                                            args.use_hub, fixed_hub)
           /\ osrm_cache' = Memoised(SearchLegs(micro_hubs, args.use_hub, fixed_hub),
                                     AllowedProfiles(city_name), engine)
           /\ pc' = IF search_best_routes(city_name, CityObj, Origin, Dest, engine,
                                          args.use_hub, fixed_hub).all = <<>>
                    THEN "stopped" ELSE "searched"
    /\ UNCHANGED <<CITY_GRAPH, CITY_NAMES, city_name, engine, micro_hubs, world, args, best_combo, baseline,
                   candidate, route, impact, cache_file, geo, geocode_memo>>

\* lines 786-788: the three alternatives that are displayed
ShowAlternatives ==
    /\ pc = "searched"
    /\ best_combo' = pick_best_combo(results, args.weight_cost)
    /\ pc' = "shown"
    /\ UNCHANGED <<CITY_GRAPH, CITY_NAMES, city_name, engine, micro_hubs, world, args, results, baseline,
                   candidate, route, osrm_cache, impact, cache_file, geo, geocode_memo>>

NextMain ==
    LocateStart \/ LocateDestination \/ BaselineFromSidebar \/ SearchFromBaseline
        \/ ShowAlternatives

SpecMain == InitMain /\ [][NextMain]_vars


BaselineShown == pc \in {"baseline", "searched", "shown"}
CandidatesFound == pc \in {"searched", "shown"}

\* the segments lead from Start to the hub and from the hub to Destination
PassesThrough(segs, hub) ==
    /\ Len(segs) >= 2
    /\ segs[1].from = "Start" /\ segs[1].to = hub.name
    /\ segs[Len(segs)].from = hub.name /\ segs[Len(segs)].to = "Destination"

OneDirectSegment(segs) ==
    /\ Len(segs) = 1
    /\ segs[1].from = "Start" /\ segs[1].to = "Destination"

\* C16: with "Route via micro-hub" on, the baseline passes through a
\* micro-hub of the city, the one with the selected name unless Auto is
\* selected, and every candidate of the search (so each displayed
\* alternative) passes through that same hub; with it off, the baseline and
\* every candidate have no hub and one segment from Start to Destination
C16_OneHub ==
    BaselineShown =>
        /\ args.use_hub =>
              /\ baseline[3] \in Range(micro_hubs)
              /\ ~args.selected_micro_label.auto =>
                    baseline[3].name = args.selected_micro_label.name
              /\ PassesThrough(baseline[1], baseline[3])
              /\ CandidatesFound =>
                    \A k \in DOMAIN results.all :
                       /\ results.all[k].hub = baseline[3]
                       /\ PassesThrough(results.all[k].segments, baseline[3])
        /\ ~args.use_hub =>
              /\ baseline[3] = None
              /\ OneDirectSegment(baseline[1])
              /\ CandidatesFound =>
                    \A k \in DOMAIN results.all :
                       /\ results.all[k].hub = None
                       /\ OneDirectSegment(results.all[k].segments)
        /\ pc = "shown" => {results.min_co2, results.min_cost, best_combo} \subseteq DOMAIN results.all

\* the user picked a hub that is not the nearest one, and the alternatives
\* shown pass through it
C16_Witness ==
    /\ pc = "shown"
    /\ args.use_hub
    /\ ~args.selected_micro_label.auto
    /\ Len(micro_hubs) = 2
    /\ baseline[3] # nearest_micro(CityObj, Dest)
    /\ results.all[best_combo].hub = baseline[3]
    /\ Len(results.all) > 1

\* a run without hub was shown
C16_WitnessDirect ==
    /\ pc = "shown"
    /\ ~args.use_hub
    /\ Len(results.all) > 1


WorkDone ==
    baseline # None \/ results # None \/ best_combo # 0 \/ osrm_cache # NoCache

PastAddresses == pc \in {"located", "baseline", "searched", "shown", "crashed"}

BlankStart == Strip(args.start_address) = <<>>
BlankDestination == Strip(args.destination_address) = <<>>

\* C18: a run whose destination address is blank or does not geocode, or
\* whose non-blank start address does not geocode, shows a warning or an error
\* and stops with no baseline, no routing request and no search; only runs
\* with usable addresses get past the addresses; a blank start address is no
\* error and makes the central hub the origin
C18_UnusableAddresses ==
    pc # "sidebar" =>
        /\ pc = "stopped" => geo.message \in {"warning", "error"} /\ ~WorkDone
        /\ (~BlankStart /\ geo.start_geo = None) => pc = "stopped" /\ geo.message = "error"
        /\ (pc # "origin_set" /\ geo.dest_geo = None) => pc = "stopped"
        /\ (pc # "origin_set" /\ BlankDestination) => pc = "stopped"
        /\ WorkDone => PastAddresses
        /\ PastAddresses =>
              /\ ~BlankDestination /\ geo.dest_geo # None
              /\ ~BlankStart => geo.origin = "start_geo" /\ geo.start_geo # None
        /\ BlankStart =>
              /\ geo.origin = "central_hub"
              /\ pc = "origin_set" => geo.message = "none"

\* a run from the central hub stopped at a destination that did not geocode
C18_Witness ==
    /\ pc = "stopped"
    /\ BlankStart
    /\ geo.origin = "central_hub"
    /\ ~BlankDestination
    /\ geo.dest_geo = None
    /\ geo.message = "error"
    /\ ~WorkDone

\* a run stopped at a start address that did not geocode
C18_WitnessStart ==
    /\ pc = "stopped"
    /\ ~BlankStart
    /\ geo.origin = "none"
    /\ geo.message = "error"

\* a run with a blank start address went on from the central hub
C18_WitnessCentralHub ==
    /\ pc = "shown"
    /\ BlankStart
    /\ geo.origin = "central_hub"

-----------------------------------------------------------------------------
(* Specification of the baseline of a run: the addresses are located, and  *)
(* the baseline is built from the chain text, the checkbox and the         *)
(* selectbox, in each of the cities.                                       *)

\* great-circle distances (origin -> hub, hub -> destination) of a hub
NearPairs == {<<2, 9>>, <<6, 3>>, <<6, 9>>}

BaselineChainTexts ==
    {<<"truck">>, <<"">>, <<" Truck ", "cargo bike">>, <<"zeppelin", "boat">>,
     <<"CARGO_TRAM", "autonomous_robot", "elcv">>,
     <<"small_van", "cargo  bike", "boat", "truck">>,
     <<"elcv", "cargo bike", "boat", "truck">>}

InitBaseline ==
    /\ pc = "located"
    /\ city_name \in CityNames
    /\ engine \in Engines
    /\ \E n \in 1..MaxHubs :
          /\ micro_hubs = [h \in 1..n |-> Node(h)]
          /\ \E l \in [1..n -> NearPairs] :
                world = [direct |-> 7, legs |-> l, osrm |-> AllServed]
          /\ \E c \in BaselineChainTexts,
                h \in HubChoices([micro_hubs |-> [k \in 1..n |-> Node(k)]]) :
                args = [start_address |-> <<>>, destination_address |-> <<"d">>,
                        baseline_chain_str |-> c, use_hub |-> h.use_hub,
                        selected_micro_label |-> h.selected_micro_label,
                        weight_cost |-> 10]
    /\ results = None
    /\ best_combo = 0
    /\ baseline = None
    /\ candidate = None
    /\ route = Idle
    /\ osrm_cache = NoCache
    /\ impact = Idle
    /\ cache_file = MainCacheFile
    /\ geo = [op |-> "run", origin |-> "central_hub", start_geo |-> None,
              dest_geo |-> <<2, 2>>, message |-> "none"]
    /\ geocode_memo = (<<"d">> :> <<2, 2>>)
    /\ CITY_GRAPH = <<>>
    /\ CITY_NAMES = <<>>

NextBaseline == BaselineFromSidebar

SpecBaseline == InitBaseline /\ [][NextBaseline]_vars

AutoBaseline ==
    /\ pc = "baseline"
    /\ args.use_hub
    /\ args.selected_micro_label.auto

\* great-circle distance of the hub's place to the destination
ToDestination(hub) == world.legs[hub.key][2]

\* place of the hub in the list of the city's micro-hubs
PlaceOf(hub) == CHOOSE i \in DOMAIN micro_hubs : micro_hubs[i] = hub

\* C17: with Auto the hub of the baseline, which nearest_micro returned, is a
\* micro-hub of the city, no micro-hub of the city is nearer to the
\* destination by great-circle distance, and every hub before it in the list
\* is farther from the destination
C17_NearestMicro ==
    AutoBaseline =>
        /\ baseline[3] \in Range(micro_hubs)
        /\ baseline[3] = nearest_micro(CityObj, Dest)
        /\ \A h \in Range(micro_hubs) : ToDestination(baseline[3]) <= ToDestination(h)
        /\ \A i \in 1..(PlaceOf(baseline[3]) - 1) :
              ToDestination(micro_hubs[i]) > ToDestination(baseline[3])

\* the second hub is the nearest to the destination, the first to the start
C17_Witness ==
    /\ AutoBaseline
    /\ Len(micro_hubs) = 2
    /\ baseline[3] = micro_hubs[2]
    /\ world.legs[1][1] < world.legs[2][1]

\* two hubs are equally near to the destination and the first was chosen
C17_WitnessTie ==
    /\ AutoBaseline
    /\ Len(micro_hubs) = 2
    /\ ToDestination(micro_hubs[1]) = ToDestination(micro_hubs[2])
    /\ world.legs[1][1] > world.legs[2][1]
    /\ baseline[3] = micro_hubs[1]

\* the modes typed into the chain text that are known and allowed in the city
KeptModes ==
    SelectSeq(parse_chain(args.baseline_chain_str),
              LAMBDA m : m \in ModeKeys /\ m \in Range(Allowed(city_name)))

SegmentModes(segs) == List([i \in 1..Len(segs) |-> segs[i].mode])

\* C20: every segment of the baseline uses a mode that is a key of MODES and
\* allowed in the selected city: the modes used are the typed modes that are
\* known and allowed, or truck alone when none is, and truck is allowed in
\* every city
C20_BaselineModes ==
    /\ \A c \in CityNames : "truck" \in Range(Allowed(c))
    /\ pc = "baseline" =>
          /\ \A i \in DOMAIN baseline[1] :
                /\ baseline[1][i].mode \in ModeKeys
                /\ baseline[1][i].mode \in Range(Allowed(city_name))
          /\ Range(SegmentModes(baseline[1])) \subseteq
                (IF KeptModes = <<>> THEN {"truck"} ELSE Range(KeptModes))
          /\ baseline[1][1].mode = IF KeptModes = <<>> THEN "truck" ELSE KeptModes[1]

\* a mode of the chain was dropped because the city does not allow it
C20_Witness ==
    /\ pc = "baseline"
    /\ args.use_hub
    /\ Len(parse_chain(args.baseline_chain_str)) = 3
    /\ Len(KeptModes) = 2
    /\ SegmentModes(baseline[1]) = KeptModes

\* nothing of the chain was left and the baseline goes by truck
C20_WitnessTruck ==
    /\ pc = "baseline"
    /\ parse_chain(args.baseline_chain_str) # <<>>
    /\ KeptModes = <<>>
    /\ SegmentModes(baseline[1]) = <<"truck">>


-----------------------------------------------------------------------------
(* The city graph: build_city_graph and build_graph_and_list.  The tables  *)
(* of the model are an excerpt of CITIES and MICRO_HUBS: the first three   *)
(* cities with MaxHubs rows each (the source has ten cities with ten rows  *)
(* each, and keeps rows[:10]); an address is abbreviated to a letter and   *)
(* the numbers of its city and row.  A dict is a sequence of entries in    *)
(* insertion order.                                                        *)

Digit == <<"1", "2", "3", "4", "5">>
CentralAddress(i) == <<"c", Digit[i]>>
MicroAddress(i, j) == <<"m", Digit[i], Digit[j]>>

\* (city, hub_name, hub_addr)
CITIES ==
    [i \in 1..3 |-> <<CITY_LIST[i], <<"Central", i>>, CentralAddress(i)>>] @@ <<>>

\* (city, key, name, addr), the rows of a city next to each other
MICRO_HUBS ==
    [k \in 1..(3 * MaxHubs) |->
        <<CITY_LIST[((k - 1) \div MaxHubs) + 1],
          <<"MH", ((k - 1) \div MaxHubs) + 1, ((k - 1) % MaxHubs) + 1>>,
          <<"name", ((k - 1) \div MaxHubs) + 1, ((k - 1) % MaxHubs) + 1>>,
          MicroAddress(((k - 1) \div MaxHubs) + 1, ((k - 1) % MaxHubs) + 1)>>] @@ <<>>

GraphNode(key, name, lat, lon, kind) ==
    [key |-> key, name |-> name, lat |-> lat, lon |-> lon, kind |-> kind]

\* geocode_address called within a run: st holds the cache file and the memo;
\* every request of the call is answered by env.script
GeocodeIn(addr, st, env) ==
    IF addr \in DOMAIN st.memo
    THEN [ret |-> st.memo[addr], file |-> st.file, memo |-> st.memo]
    ELSE [ret |-> geocode_body(addr, st.file, env.script).ret,
          file |-> FileAfter(st.file, geocode_body(addr, st.file, env.script), env.write_ok),
          memo |-> Put(st.memo, addr, geocode_body(addr, st.file, env.script).ret)]

GraphKeys(graph) == {graph[i].city : i \in DOMAIN graph}
GraphIndex(graph, city) == CHOOSE i \in DOMAIN graph : graph[i].city = city

\* graph[city] = obj
GraphSet(graph, obj) ==
    IF obj.city \in GraphKeys(graph)
    THEN [graph EXCEPT ![GraphIndex(graph, obj.city)] = obj]
    ELSE Append(graph, obj)

\* the first loop: a city whose central hub geocodes gets an entry
RECURSIVE CentralHubs(_, _, _, _, _)
CentralHubs(cities, i, st, graph, env) ==
    IF i > Len(cities) THEN [st |-> st, graph |-> graph]
    ELSE LET ch == GeocodeIn(cities[i][3], st, env)
         IN  CentralHubs(cities, i + 1, [file |-> ch.file, memo |-> ch.memo],
                         IF ch.ret = None THEN graph
                         ELSE GraphSet(graph,
                                 [city |-> cities[i][1],
                                  central_hub |-> GraphNode("CENTRAL", cities[i][2],
                                                            ch.ret[1], ch.ret[2], "depot"),
                                  micro_hubs |-> <<>>]),
                         env)

\* by_city.setdefault(c, []).append((key, name, addr)) for every row in turn
RECURSIVE ByCity(_, _, _)
ByCity(micro_rows, k, by_city) ==
    IF k > Len(micro_rows) THEN by_city
    ELSE ByCity(micro_rows, k + 1,
                IF \E n \in DOMAIN by_city : by_city[n].c = micro_rows[k][1]
                THEN [n \in DOMAIN by_city |->
                        IF by_city[n].c = micro_rows[k][1]
                        THEN [by_city[n] EXCEPT !.rows = Append(@, Tail(micro_rows[k]))]
                        ELSE by_city[n]] @@ <<>>
                ELSE Append(by_city, [c |-> micro_rows[k][1], rows |-> <<Tail(micro_rows[k])>>]))

\* rows[:10]
FirstRows(rows) == SubSeq(rows, 1, IF Len(rows) < MaxHubs THEN Len(rows) ELSE MaxHubs)

\* the rows of one city: a row whose address geocodes becomes a hub node
RECURSIVE MicroHubsOf(_, _, _, _, _)
MicroHubsOf(rows, j, st, nodes, env) ==
    IF j > Len(rows) THEN [st |-> st, nodes |-> nodes]
    ELSE LET mh == GeocodeIn(rows[j][3], st, env)
         IN  MicroHubsOf(rows, j + 1, [file |-> mh.file, memo |-> mh.memo],
                         IF mh.ret = None THEN nodes
                         ELSE Append(nodes, GraphNode(rows[j][1], rows[j][2],
                                                      mh.ret[1], mh.ret[2], "hub")),
                         env)

\* the third loop: the cities of by_city that have an entry get their hubs
RECURSIVE MicroLoop(_, _, _, _, _)
MicroLoop(by_city, n, st, graph, env) ==
    IF n > Len(by_city) THEN [st |-> st, graph |-> graph]
    ELSE IF by_city[n].c \notin GraphKeys(graph)
         THEN MicroLoop(by_city, n + 1, st, graph, env)
         ELSE LET at == GraphIndex(graph, by_city[n].c)
                  hubs == MicroHubsOf(FirstRows(by_city[n].rows), 1, st,
                                      graph[at].micro_hubs, env)
              IN  MicroLoop(by_city, n + 1, hubs.st,
                            [graph EXCEPT ![at].micro_hubs = hubs.nodes], env)

\* the final filter left out: every city with a central hub stays
KeepEveryCity(graph) == graph

\* {k: v for k, v in graph.items() if v["micro_hubs"]}
WithMicroHubs(graph) ==
    LET Kept(obj) == obj.micro_hubs # <<>>
    IN  SelectSeq(graph, Kept)

\* build_city_graph(cities, micro_rows): the graph, and the cache file and the
\* memo of geocode_address it leaves
build_city_graph(cities, micro_rows, st, env) ==
    LET first == CentralHubs(cities, 1, st, <<>>, env)
        second == MicroLoop(ByCity(micro_rows, 1, <<>>), 1, first.st, first.graph, env)
    IN  [graph |-> WithMicroHubs(second.graph), st |-> second.st]

\* names = [c for c in CITY_LIST if c in graph]
NamesIn(graph) ==
    LET InGraph(c) == c \in GraphKeys(graph)
    IN  SelectSeq(CITY_LIST, InGraph)

\* build_graph_and_list(): graph, names (and the geocoder's state after it)
build_graph_and_list(st, env) ==
    [graph |-> build_city_graph(CITIES, MICRO_HUBS, st, env).graph,
     names |-> NamesIn(build_city_graph(CITIES, MICRO_HUBS, st, env).graph),
     st |-> build_city_graph(CITIES, MICRO_HUBS, st, env).st]

-----------------------------------------------------------------------------
(* Specification of the start of the app: the graph is built from a cache  *)
(* file that knows most addresses of the tables, as found or as not found, *)
(* and a service that finds the others or fails.                           *)

\* addresses the deployed cache file does not know
UnknownAddresses == {CentralAddress(2), MicroAddress(1, 1)}

TableAddresses ==
    {CITIES[i][3] : i \in DOMAIN CITIES} \cup {MICRO_HUBS[k][4] : k \in DOMAIN MICRO_HUBS}

\* the pair the deployed cache file holds for a found address
PairOf(addr) == <<Len(addr), IF addr[1] = "c" THEN 0 ELSE 1>>

GraphCacheFiles ==
    {[exists |-> TRUE,
      data |-> [a \in TableAddresses \ UnknownAddresses |->
                  IF a \in found THEN PairOf(a) ELSE None]] :
        found \in SUBSET (TableAddresses \ UnknownAddresses)}

InitGraph ==
    /\ pc = "startup"
    /\ city_name = CITY_LIST[1]
    /\ engine = OSRM_ENGINE
    /\ micro_hubs = <<>>
    /\ world = [direct |-> 0, legs |-> <<>>, osrm |-> AllServed]
    /\ args = [op |-> None]
    /\ results = None
    /\ best_combo = 0
    /\ baseline = None
    /\ candidate = None
    /\ route = None
    /\ osrm_cache = NoCache
    /\ impact = None
    /\ cache_file \in GraphCacheFiles
    /\ geo = Idle
    /\ geocode_memo = NoCache
    /\ CITY_GRAPH = <<>>
    /\ CITY_NAMES = <<>>

\* the script up to the sidebar: CITY_GRAPH = build_city_graph(CITIES,
\* MICRO_HUBS), then CITY_GRAPH, CITY_NAMES = build_graph_and_list(), which
\* the memo of build_city_graph answers; the run stops if nothing was built
BuildGraphAndList ==
    /\ pc = "startup"
    /\ \E script \in MainScripts, write_ok \in BOOLEAN :
          LET env == [script |-> script, write_ok |-> write_ok]
              built == build_graph_and_list([file |-> cache_file, memo |-> geocode_memo], env)
          IN  /\ args' = [op |-> "build_graph_and_list", before |-> cache_file,
                          script |-> script]
              /\ CITY_GRAPH' = built.graph
              /\ CITY_NAMES' = built.names
              /\ cache_file' = built.st.file
              /\ geocode_memo' = built.st.memo
              /\ pc' = IF built.graph = <<>> \/ built.names = <<>> THEN "stopped" ELSE "sidebar"
    /\ UNCHANGED <<city_name, engine, micro_hubs, world, results, best_combo, baseline,
                   candidate, route, osrm_cache, impact, geo>>

NextGraph == BuildGraphAndList

SpecGraph == InitGraph /\ [][NextGraph]_vars

GraphBuilt == args.op = "build_graph_and_list"

\* the geocoder's verdict on an address of the tables at the start of the run
Geocodes(addr) == geocode_body(addr, args.before, args.script).ret # None

RowsOfCity(city) ==
    LET OfCity(row) == row[1] = city
    IN  SelectSeq(MICRO_HUBS, OfCity)

GeocodingRows(city) ==
    LET Ok(row) == Geocodes(row[4])
    IN  SelectSeq(RowsOfCity(city), Ok)

\* C19: build_city_graph keeps a city if and only if its central-hub address
\* geocodes and at least one of its micro-hub addresses geocodes; every kept
\* city has between 1 and 10 micro-hubs (MaxHubs in the model), its micro-hub
\* nodes are the rows of that city in MICRO_HUBS whose address geocodes, in
\* row order, so a row that does not geocode is left out without dropping
\* the city; and the selectable city names are exactly the entries of
\* CITY_LIST that are keys of the graph, in the order of CITY_LIST.
C19_CityGraph ==
    GraphBuilt =>
        /\ \A i \in DOMAIN CITIES :
              CITIES[i][1] \in GraphKeys(CITY_GRAPH)
                 <=> /\ Geocodes(CITIES[i][3])
                     /\ \E k \in DOMAIN MICRO_HUBS :
                           MICRO_HUBS[k][1] = CITIES[i][1] /\ Geocodes(MICRO_HUBS[k][4])
        /\ \A n \in DOMAIN CITY_GRAPH :
              /\ Len(CITY_GRAPH[n].micro_hubs) \in 1..MaxHubs
              /\ Len(CITY_GRAPH[n].micro_hubs) = Len(GeocodingRows(CITY_GRAPH[n].city))
              /\ \A j \in DOMAIN CITY_GRAPH[n].micro_hubs :
                    /\ CITY_GRAPH[n].micro_hubs[j].key = GeocodingRows(CITY_GRAPH[n].city)[j][2]
                    /\ CITY_GRAPH[n].micro_hubs[j].name = GeocodingRows(CITY_GRAPH[n].city)[j][3]
                    /\ CITY_GRAPH[n].micro_hubs[j].kind = "hub"
        /\ \A n, m \in DOMAIN CITY_GRAPH : CITY_GRAPH[n].city = CITY_GRAPH[m].city => n = m
        /\ Len(CITY_NAMES) = Cardinality(GraphKeys(CITY_GRAPH))
        /\ \A n \in DOMAIN CITY_NAMES : CITY_NAMES[n] \in GraphKeys(CITY_GRAPH)
        /\ \A n, m \in DOMAIN CITY_NAMES :
              n < m => \E a, b \in DOMAIN CITY_LIST :
                          a < b /\ CITY_LIST[a] = CITY_NAMES[n] /\ CITY_LIST[b] = CITY_NAMES[m]

\* a city is kept although one of its rows does not geocode, another city is
\* dropped although its central hub geocodes, and a third although one of its
\* rows geocodes
C19_Witness ==
    /\ GraphBuilt
    /\ \E n \in DOMAIN CITY_GRAPH :
          Len(CITY_GRAPH[n].micro_hubs) < Len(RowsOfCity(CITY_GRAPH[n].city))
    /\ \E i \in DOMAIN CITIES :
          /\ CITIES[i][1] \notin GraphKeys(CITY_GRAPH)
          /\ Geocodes(CITIES[i][3])
    /\ \E i \in DOMAIN CITIES :
          /\ CITIES[i][1] \notin GraphKeys(CITY_GRAPH)
          /\ GeocodingRows(CITIES[i][1]) # <<>>

\* every city is kept with every row, two addresses found by the service
C19_WitnessFull ==
    /\ GraphBuilt
    /\ Len(CITY_NAMES) = Len(CITIES)
    /\ \A n \in DOMAIN CITY_GRAPH : Len(CITY_GRAPH[n].micro_hubs) = MaxHubs
    /\ cache_file # args.before

\* no city is kept and the run stops
C19_WitnessStopped ==
    /\ GraphBuilt
    /\ pc = "stopped"
    /\ CITY_NAMES = <<>>


\* the chain make_baseline works with in the run: the typed modes that are
\* known and allowed, or truck alone
FilteredChain == IF KeptModes = <<>> THEN <<"truck">> ELSE KeptModes

\* C21: make_baseline turns the filtered chain into segments: without a hub
\* there is exactly one segment, from Start to Destination by the first mode
\* of the chain, and the result is the one of the first mode alone; via a hub
\* with a chain of n modes the first segment goes from Start to the hub by the
\* first mode, the last from the hub to Destination by the last mode (the
\* first mode when n = 1), and between them there is one transfer segment of
\* 0.5 km at the hub for each of the n - 2 middle modes, in the order of the
\* chain, so there are 2 segments for n <= 2 and n segments for n >= 3.
C21_BaselineSegments ==
    pc = "baseline" =>
        /\ ~args.use_hub =>
              /\ Len(baseline[1]) = 1
              /\ baseline[1][1].from = "Start"
              /\ baseline[1][1].to = "Destination"
              /\ baseline[1][1].mode = FilteredChain[1]
              /\ baseline = make_baseline(Origin, Dest, <<FilteredChain[1]>>, FALSE, None)
        /\ args.use_hub =>
              /\ Len(baseline[1]) = IF Len(FilteredChain) <= 2 THEN 2 ELSE Len(FilteredChain)
              /\ baseline[1][1].from = "Start"
              /\ baseline[1][1].to = baseline[3].name
              /\ baseline[1][1].mode = FilteredChain[1]
              /\ baseline[1][Len(baseline[1])].from = baseline[3].name
              /\ baseline[1][Len(baseline[1])].to = "Destination"
              /\ baseline[1][Len(baseline[1])].mode = FilteredChain[Len(FilteredChain)]
              /\ \A i \in 2..(Len(baseline[1]) - 1) :
                    /\ baseline[1][i].mode = FilteredChain[i]
                    /\ baseline[1][i].distance_km = UNITS_PER_KM \div 2
                    /\ baseline[1][i].from = <<baseline[3].name, "Xfer", i - 1>>
                    /\ baseline[1][i].to = <<baseline[3].name, "Xfer", i - 1, "end">>

\* via a hub a chain of four modes gives four segments, the two middle ones
\* transfers by the two middle modes
C21_Witness ==
    /\ pc = "baseline"
    /\ args.use_hub
    /\ Len(FilteredChain) = 4
    /\ Len(baseline[1]) = 4
    /\ baseline[1][2].mode = FilteredChain[2]
    /\ baseline[1][3].mode = FilteredChain[3]
    /\ baseline[1][2].mode # baseline[1][3].mode
    /\ baseline[1][1].mode # baseline[1][4].mode

\* via a hub a chain of three modes gives three segments
C21_WitnessThree ==
    /\ pc = "baseline"
    /\ args.use_hub
    /\ Len(FilteredChain) = 3
    /\ Len(baseline[1]) = 3

\* without a hub the second mode of the chain is not used
C21_WitnessDirect ==
    /\ pc = "baseline"
    /\ ~args.use_hub
    /\ Len(FilteredChain) >= 2
    /\ FilteredChain[2] # FilteredChain[1]
    /\ Len(baseline[1]) = 1

\* via a hub a chain of one mode uses it on both legs
C21_WitnessOneMode ==
    /\ pc = "baseline"
    /\ args.use_hub
    /\ Len(FilteredChain) = 1
    /\ Len(baseline[1]) = 2
    /\ baseline[1][1].mode = baseline[1][2].mode

=============================================================================
